---------------------------- MODULE Spec2Model ----------------------------
(***************************************************************************)
(* A model of the SRM-AI question answering engines:                       *)
(*   - SRMKnowledgeGraph   (src/knowledge_graph.py)                        *)
(*   - NLUModule           (src/nlu_module.py)                             *)
(*   - EnhancedChatbot     (src/enhanced_chatbot.py)                       *)
(*   - TextProcessor/ORBAI (src/text_processor.py, src/orb_ai.py)          *)
(*   - SimpleChatbot       (src/simple_chatbot.py)                         *)
(*                                                                         *)
(* Python strings are sequences of one-character strings, so that          *)
(* lower(), split(), substring tests and dictionary lookups by key are     *)
(* computed the way the code computes them.  Str("...") names the          *)
(* character sequence of a literal.  Floats are integers in hundredths     *)
(* (1.0 is 100, 0.6 is 60).                                                *)
(***************************************************************************)
EXTENDS Integers, Sequences, FiniteSets, TLC

\* the character sequence of a string literal
Str(s) == [i \in 1..Len(s) |-> SubSeq(s, i, i)]

-----------------------------------------------------------------------------
(* Python string and list primitives                                       *)

UpperToLower ==
    [A |-> "a", B |-> "b", C |-> "c", D |-> "d", E |-> "e", F |-> "f",
     G |-> "g", H |-> "h", I |-> "i", J |-> "j", K |-> "k", L |-> "l",
     M |-> "m", N |-> "n", O |-> "o", P |-> "p", Q |-> "q", R |-> "r",
     S |-> "s", T |-> "t", U |-> "u", V |-> "v", W |-> "w", X |-> "x",
     Y |-> "y", Z |-> "z"]

LowerChar(c) == IF c \in DOMAIN UpperToLower THEN UpperToLower[c] ELSE c

\* str.lower()
Lower(s) == [i \in 1..Len(s) |-> LowerChar(s[i])]

Digits == {"0", "1", "2", "3", "4", "5", "6", "7", "8", "9"}

\* the regular expression class \w
IsWordChar(c) ==
    \/ c \in DOMAIN UpperToLower
    \/ c \in {UpperToLower[u] : u \in DOMAIN UpperToLower}
    \/ c \in Digits
    \/ c = "_"

\* the regular expression class \s
IsSpace(c) == c \in {" ", "\t", "\n"}

\* needle in hay (substring test of two strings)
Contains(hay, needle) ==
    \E i \in 0..(Len(hay) - Len(needle)) :
        \A j \in 1..Len(needle) : hay[i + j] = needle[j]

\* hay.startswith(prefix)
StartsWith(hay, prefix) ==
    /\ Len(prefix) <= Len(hay)
    /\ \A j \in 1..Len(prefix) : hay[j] = prefix[j]

\* str.split(): the maximal runs of non-whitespace characters
RECURSIVE SplitFrom(_, _, _)
SplitFrom(s, i, cur) ==
    IF i > Len(s)
    THEN IF cur = <<>> THEN <<>> ELSE <<cur>>
    ELSE IF IsSpace(s[i])
         THEN (IF cur = <<>> THEN <<>> ELSE <<cur>>) \o SplitFrom(s, i + 1, <<>>)
         ELSE SplitFrom(s, i + 1, Append(cur, s[i]))

Split(s) == SplitFrom(s, 1, <<>>)

\* sep.join(parts)
RECURSIVE Join(_, _)
Join(sep, parts) ==
    IF parts = <<>> THEN <<>>
    ELSE IF Len(parts) = 1 THEN parts[1]
    ELSE parts[1] \o sep \o Join(sep, Tail(parts))

\* str.strip()
RECURSIVE Strip(_)
Strip(s) ==
    IF s = <<>> THEN s
    ELSE IF IsSpace(s[1]) THEN Strip(Tail(s))
    ELSE IF IsSpace(s[Len(s)]) THEN Strip(SubSeq(s, 1, Len(s) - 1))
    ELSE s

\* x in list
InList(x, list) == \E i \in 1..Len(list) : list[i] = x

\* list[:n]
Take(list, n) == SubSeq(list, 1, IF Len(list) < n THEN Len(list) ELSE n)

-----------------------------------------------------------------------------
(* Python values held in dictionaries: a string, a list of strings, None   *)

SV(s) == [k |-> "str", v |-> s]
LV(l) == [k |-> "list", v |-> l]
DV(d) == [k |-> "dict", v |-> d]
None == [k |-> "none", v |-> <<>>]

\* a == b on Python values (a string never equals a list or None)
ValEq(a, b) == a.k = b.k /\ a.v = b.v

\* {**old, **new}
Merge(old, new) ==
    [key \in (DOMAIN old) \cup (DOMAIN new) |->
        IF key \in DOMAIN new THEN new[key] ELSE old[key]]

EmptyDict == [key \in {} |-> None]

-----------------------------------------------------------------------------
(* SRMKnowledgeGraph: a networkx.MultiDiGraph                              *)
(* graph.nodes  the node ids in insertion order                            *)
(* graph.attrs  node id -> attribute dictionary                            *)
(* graph.edges  the edges in insertion order, parallel edges kept          *)

VARIABLES graph, kg_result, kg_ops

\* self.entities, with the class's structure and a part of its contents
\* (ordered dictionaries are lists of name/details pairs)
entities ==
    [campuses |-> <<
        [name |-> Str("Kattankulathur"), details |->
            [location |-> SV(Str("Chennai")),
             established |-> SV(Str("1985")),
             address |-> SV(Str("SRM Nagar, Kattankulathur - 603203")),
             landmarks |-> LV(<<Str("Tech Park"), Str("Central Library")>>)]],
        [name |-> Str("Sikkim"), details |->
            [location |-> SV(Str("Gangtok")),
             established |-> SV(Str("2019")),
             address |-> SV(Str("5th Mile, Tadong - 737102"))]] >>,
     locations |-> <<
        [name |-> Str("Tech Park"), details |->
            [description |-> SV(Str("A facility housing research labs")),
             location |-> SV(Str("Kattankulathur Campus")),
             facilities |-> LV(<<Str("Research Labs"), Str("Innovation Center")>>),
             map_link |-> SV(Str("https://maps.app.goo.gl/HvLK"))]],
        [name |-> Str("Central Library"), details |->
            [description |-> SV(Str("Multi-story library with books")),
             location |-> SV(Str("Kattankulathur Campus")),
             facilities |-> LV(<<Str("Reading Halls"), Str("Digital Library")>>),
             map_link |-> SV(Str("https://maps.app.goo.gl/HvLK"))]] >>,
     programs |-> <<
        [name |-> Str("Engineering"), details |->
            [degrees |-> LV(<<Str("B.Tech"), Str("Ph.D")>>),
             departments |-> LV(<<Str("Computer Science"), Str("Civil")>>)]],
        [name |-> Str("Law"), details |->
            [degrees |-> LV(<<Str("LLM")>>),
             departments |-> LV(<<Str("Corporate Law")>>)]] >>,
     facilities |-> <<
        [name |-> Str("hostels"), details |->
            [types |-> LV(<<Str("Men's Hostel"), Str("Women's Hostel")>>),
             amenities |-> LV(<<Str("Wi-Fi"), Str("Gym")>>)]] >>]

EmptyGraph == [nodes |-> <<>>, attrs |-> EmptyDict, edges |-> <<>>]

\* MultiDiGraph.add_node(n, **attr): a new node is appended, an existing
\* node has its attribute dictionary updated
add_node(g, n, attr) ==
    IF InList(n, g.nodes)
    THEN [g EXCEPT !.attrs[n] = Merge(@, attr)]
    ELSE [g EXCEPT !.nodes = Append(@, n), !.attrs = (n :> attr) @@ @]

\* MultiDiGraph.add_edge(u, v, relationship=r): missing endpoints are
\* created as nodes without attributes; an edge is always added
add_edge(g, u, v, r) ==
    LET g1 == IF InList(u, g.nodes) THEN g ELSE add_node(g, u, EmptyDict)
        g2 == IF InList(v, g1.nodes) THEN g1 ELSE add_node(g1, v, EmptyDict)
    IN [g2 EXCEPT !.edges = Append(@, [u |-> u, v |-> v, relationship |-> r])]

TypeAttr(t) == [type |-> SV(t)]

\* Each builder looks at the graph built so far before it takes its next
\* step, so that one step is evaluated before the next begins.
Built(g) == Len(g.nodes) >= 0

\* for campus_id, details in self.entities['campuses'].items()
RECURSIVE BuildCampuses(_, _)
BuildCampuses(g, items) ==
    IF Built(g) /\ items # <<>>
    THEN BuildCampuses(
             add_node(g, items[1].name,
                      Merge(TypeAttr(Str("campus")), items[1].details)),
             Tail(items))
    ELSE g

\* for loc_id, details in self.entities['locations'].items()
RECURSIVE BuildLocations(_, _)
BuildLocations(g, items) ==
    IF Built(g) /\ items # <<>>
    THEN BuildLocations(
             add_edge(add_node(g, items[1].name,
                               Merge(TypeAttr(Str("location")), items[1].details)),
                      items[1].details.location.v, items[1].name,
                      Str("has_location")),
             Tail(items))
    ELSE g

\* for degree in details['degrees']
RECURSIVE BuildDegrees(_, _, _)
BuildDegrees(g, program, degrees) ==
    IF Built(g) /\ degrees # <<>>
    THEN BuildDegrees(
             add_edge(add_node(g, program \o Str("_") \o degrees[1],
                               Merge(TypeAttr(Str("degree")),
                                     [program |-> SV(program),
                                      degree |-> SV(degrees[1])])),
                      program, program \o Str("_") \o degrees[1],
                      Str("has_degree")),
             program, Tail(degrees))
    ELSE g

\* for campus in self.entities['campuses']
RECURSIVE BuildOffers(_, _, _)
BuildOffers(g, program, campusItems) ==
    IF Built(g) /\ campusItems # <<>>
    THEN BuildOffers(
             BuildDegrees(add_edge(g, campusItems[1].name, program.name,
                                   Str("offers")),
                          program.name, program.details.degrees.v),
             program, Tail(campusItems))
    ELSE g

\* for prog_id, details in self.entities['programs'].items()
RECURSIVE BuildPrograms(_, _, _)
BuildPrograms(g, items, campusItems) ==
    IF Built(g) /\ items # <<>>
    THEN BuildPrograms(
             BuildOffers(add_node(g, items[1].name,
                                  Merge(TypeAttr(Str("program")), items[1].details)),
                         items[1], campusItems),
             Tail(items), campusItems)
    ELSE g

\* for campus in self.entities['campuses']
RECURSIVE BuildHasFacility(_, _, _)
BuildHasFacility(g, facility, campusItems) ==
    IF Built(g) /\ campusItems # <<>>
    THEN BuildHasFacility(
             add_edge(g, campusItems[1].name, facility, Str("has_facility")),
             facility, Tail(campusItems))
    ELSE g

\* for facility_id, details in self.entities['facilities'].items()
RECURSIVE BuildFacilities(_, _, _)
BuildFacilities(g, items, campusItems) ==
    IF Built(g) /\ items # <<>>
    THEN BuildFacilities(
             BuildHasFacility(add_node(g, items[1].name,
                                       Merge(TypeAttr(Str("facility")),
                                             items[1].details)),
                              items[1].name, campusItems),
             Tail(items), campusItems)
    ELSE g

\* SRMKnowledgeGraph._build_graph over self.entities
BuildGraph(e) ==
    BuildFacilities(
        BuildPrograms(
            BuildLocations(BuildCampuses(EmptyGraph, e.campuses), e.locations),
            e.programs, e.campuses),
        e.facilities, e.campuses)

_build_graph == BuildGraph(entities)

\* {'id': node_id, **attrs}
NodeDict(g, n) == Merge([id |-> SV(n)], g.attrs[n])

\* a filter test that is satisfied by one matching pair
matches_any_filter(attrs, filters) ==
    \E key \in DOMAIN filters :
        key \in DOMAIN attrs /\ ValEq(attrs[key], filters[key])

\* all(key in attrs and attrs[key] == value for key, value in filters.items())
matches_filters(attrs, filters) ==
    \A key \in DOMAIN filters :
        key \in DOMAIN attrs /\ ValEq(attrs[key], filters[key])

RECURSIVE QueryFrom(_, _, _, _)
QueryFrom(g, i, entity_type, filters) ==
    IF i > Len(g.nodes) THEN <<>>
    ELSE LET attrs == g.attrs[g.nodes[i]]
             keep ==
                /\ "type" \in DOMAIN attrs
                /\ ValEq(attrs.type, SV(entity_type))
                /\ (DOMAIN filters = {} \/ matches_filters(attrs, filters))
         IN (IF keep THEN <<NodeDict(g, g.nodes[i])>> ELSE <<>>)
            \o QueryFrom(g, i + 1, entity_type, filters)

\* SRMKnowledgeGraph.query(entity_type, filters); no filters is EmptyDict
query(g, entity_type, filters) == QueryFrom(g, 1, entity_type, filters)

\* query in str(v).lower(), for a string v
TextIn(q, s) == Contains(Lower(s), q)

\* a test of a mapping-valued attribute that walks the mapping's keys too
matches_keys_too(q, value) ==
    \/ value.k = "str" /\ TextIn(q, value.v)
    \/ value.k = "list" /\ \E i \in 1..Len(value.v) : TextIn(q, value.v[i])
    \/ value.k = "dict" /\ \E key \in DOMAIN value.v :
                               TextIn(q, value.v[key]) \/ TextIn(q, Str(key))

\* does the attribute value match the lowered query text: a string, an
\* element of a list or a value of a dictionary
ValueMatches(q, value) ==
    \/ value.k = "str" /\ TextIn(q, value.v)
    \/ value.k = "list" /\ \E i \in 1..Len(value.v) : TextIn(q, value.v[i])
    \/ value.k = "dict" /\ \E key \in DOMAIN value.v : TextIn(q, value.v[key])

RECURSIVE SearchFrom(_, _, _)
SearchFrom(g, i, q) ==
    IF i > Len(g.nodes) THEN <<>>
    ELSE LET n == g.nodes[i]
             attrs == g.attrs[n]
             hit == \/ TextIn(q, n)
                    \/ \E key \in DOMAIN attrs : ValueMatches(q, attrs[key])
         IN (IF hit THEN <<NodeDict(g, n)>> ELSE <<>>) \o SearchFrom(g, i + 1, q)

\* SRMKnowledgeGraph.search_by_text(query)
search_by_text(g, text) == SearchFrom(g, 1, Lower(text))

\* the edges MultiDiGraph.edges(n, data=True) yields for a node: the
\* out-edges of n, neighbour by neighbour in the order the neighbours were
\* first linked, the parallel edges to one neighbour together
RECURSIVE OutEdgesFrom(_, _, _, _)
OutEdgesFrom(g, n, i, seen) ==
    IF i > Len(g.edges) THEN <<>>
    ELSE IF g.edges[i].u # n \/ g.edges[i].v \in seen
    THEN OutEdgesFrom(g, n, i + 1, seen)
    ELSE SelectSeq(g.edges, LAMBDA e : e.u = n /\ e.v = g.edges[i].v)
         \o OutEdgesFrom(g, n, i + 1, seen \cup {g.edges[i].v})

\* SRMKnowledgeGraph.get_related_entities(entity_id, relationship_type);
\* relationship_type is a string, empty for None
RECURSIVE RelatedFrom(_, _, _)
RelatedFrom(g, out, relationship_type) ==
    IF out = <<>> THEN <<>>
    ELSE (IF relationship_type # <<>> /\ out[1].relationship # relationship_type
          THEN <<>>
          ELSE <<Merge([id |-> SV(out[1].v),
                        relationship |-> SV(out[1].relationship)],
                       g.attrs[out[1].v])>>)
         \o RelatedFrom(g, Tail(out), relationship_type)

get_related_entities(g, entity_id, relationship_type) ==
    RelatedFrom(g, OutEdgesFrom(g, entity_id, 1, {}), relationship_type)

\* the arguments the graph's mutators are called with
KGIds == {Str("Tech Park"), Str("Library Annex")}
KGTypes == {Str("location"), Str("campus")}
KGAttributes ==
    {EmptyDict,
     [description |-> SV(Str("Annex of the library"))],
     [id |-> SV(Str("Library Annex"))],
     [type |-> SV(Str("facility"))],
     [contact |-> DV([phone |-> Str("044-2745"), desk |-> Str("Annex Desk")])]}
KGRelationships == {Str("near")}

\* the number of mutating calls explored
MaxKGOps == 2

KGInit ==
    /\ graph = _build_graph
    /\ kg_result = [op |-> "init", raised |-> "none"]
    /\ kg_ops = 0

\* SRMKnowledgeGraph.add_entity(entity_id, entity_type, attributes);
\* a 'type' key in attributes is a second value for keyword 'type'
add_entity(entity_id, entity_type, attributes) ==
    /\ kg_ops < MaxKGOps
    /\ kg_ops' = kg_ops + 1
    /\ IF "type" \in DOMAIN attributes
       THEN /\ graph' = graph
            /\ kg_result' = [op |-> "add_entity", raised |-> "TypeError",
                             entity_id |-> entity_id, entity_type |-> entity_type,
                             attributes |-> attributes, before |-> graph]
       ELSE /\ graph' = add_node(graph, entity_id,
                                 Merge([type |-> SV(entity_type)], attributes))
            /\ kg_result' = [op |-> "add_entity", raised |-> "none",
                             entity_id |-> entity_id, entity_type |-> entity_type,
                             attributes |-> attributes, before |-> graph]

\* SRMKnowledgeGraph.add_relationship(from_entity, to_entity, relationship_type)
add_relationship(from_entity, to_entity, relationship_type) ==
    /\ kg_ops < MaxKGOps
    /\ kg_ops' = kg_ops + 1
    /\ graph' = add_edge(graph, from_entity, to_entity, relationship_type)
    /\ kg_result' = [op |-> "add_relationship", raised |-> "none",
                     from_entity |-> from_entity, to_entity |-> to_entity,
                     relationship_type |-> relationship_type, before |-> graph]

AddEntity ==
    \E i \in KGIds, t \in KGTypes, a \in KGAttributes : add_entity(i, t, a)

AddRelationship ==
    \E u \in KGIds, v \in KGIds, r \in KGRelationships : add_relationship(u, v, r)

kgvars == <<graph, kg_result, kg_ops>>

-----------------------------------------------------------------------------
(* NLUModule                                                               *)

\* re.sub(r'[^\w\s?]', ' ', text)
ReplaceSpecial(s) ==
    [i \in 1..Len(s) |->
        IF IsWordChar(s[i]) \/ IsSpace(s[i]) \/ s[i] = "?" THEN s[i] ELSE " "]

\* NLUModule.preprocess_text
preprocess_text(text) == Join(Str(" "), Split(ReplaceSpecial(Lower(text))))

\* nltk.word_tokenize on preprocessed text: the words, with each question
\* mark a token of its own
RECURSIVE WordTokens(_, _, _)
WordTokens(s, i, cur) ==
    IF i > Len(s)
    THEN IF cur = <<>> THEN <<>> ELSE <<cur>>
    ELSE IF IsSpace(s[i])
         THEN (IF cur = <<>> THEN <<>> ELSE <<cur>>) \o WordTokens(s, i + 1, <<>>)
         ELSE IF s[i] = "?"
              THEN (IF cur = <<>> THEN <<>> ELSE <<cur>>) \o <<Str("?")>>
                       \o WordTokens(s, i + 1, <<>>)
              ELSE WordTokens(s, i + 1, Append(cur, s[i]))

word_tokenize(text) == WordTokens(text, 1, <<>>)

\* nltk.pos_tag: the words tagged NN, NNS, NNP or NNPS
NounWords ==
    {Str("tech"), Str("park"), Str("library"), Str("hostels"), Str("timings"),
     Str("facilities"), Str("meaning"), Str("life"), Str("thing"),
     Str("information")}

IsNounTag(word) == word \in NounWords

\* the loop of extract_entities: maximal runs of noun-tagged tokens
RECURSIVE EntityRuns(_, _)
EntityRuns(tokens, current_entity) ==
    IF tokens = <<>>
    THEN IF current_entity = <<>> THEN <<>> ELSE <<Join(Str(" "), current_entity)>>
    ELSE IF IsNounTag(tokens[1])
         THEN EntityRuns(Tail(tokens), Append(current_entity, tokens[1]))
         ELSE (IF current_entity = <<>> THEN <<>>
               ELSE <<Join(Str(" "), current_entity)>>)
              \o EntityRuns(Tail(tokens), <<>>)

\* NLUModule.extract_entities
extract_entities(text) == EntityRuns(word_tokenize(text), <<>>)

\* any(p in text for p in patterns), the patterns plain strings
AnyIn(patterns, text) == \E i \in 1..Len(patterns) : Contains(text, patterns[i])

\* self.question_patterns, each regular expression as the strings it matches;
\* the yes_no patterns are anchored at the start of the text
question_patterns ==
    [factual |-> <<Str("what is"), Str("what are"), Str("where is"),
                   Str("where are"), Str("when is"), Str("when are"),
                   Str("who is"), Str("who are"), Str("which")>>,
     procedural |-> <<Str("how to"), Str("how do"), Str("how can"),
                      Str("how should"), Str("what steps"), Str("what process"),
                      Str("guide"), Str("explain")>>,
     comparative |-> <<Str("compare"), Str("difference between"), Str("vs"),
                       Str("versus"), Str("better"), Str("advantages")>>,
     yes_no |-> <<Str("is"), Str("are"), Str("can"), Str("should"), Str("do"),
                  Str("does"), Str("will"), Str("has"), Str("have"), Str("had")>>]

\* NLUModule.detect_question_type
detect_question_type(text0) ==
    LET text == Strip(Lower(text0))
    IN IF AnyIn(question_patterns.factual, text) THEN Str("factual")
       ELSE IF AnyIn(question_patterns.procedural, text) THEN Str("procedural")
       ELSE IF AnyIn(question_patterns.comparative, text) THEN Str("comparative")
       ELSE IF \E i \in 1..Len(question_patterns.yes_no) :
                   StartsWith(text, question_patterns.yes_no[i])
            THEN Str("yes_no")
       ELSE Str("other")

\* self.intent_patterns
intent_patterns ==
    [location |-> <<Str("where"), Str("location"), Str("address"),
                    Str("directions"), Str("find"), Str("reach")>>,
     timing |-> <<Str("when"), Str("timing"), Str("schedule"), Str("hours"),
                  Str("open"), Str("close")>>,
     process |-> <<Str("how to"), Str("process"), Str("steps"),
                   Str("procedure"), Str("apply")>>,
     contact |-> <<Str("contact"), Str("email"), Str("phone"), Str("reach out"),
                   Str("get in touch")>>,
     description |-> <<Str("what is"), Str("tell me about"), Str("describe"),
                       Str("explain")>>]

\* NLUModule.detect_intent
detect_intent(text0) ==
    LET text == Strip(Lower(text0))
    IN IF AnyIn(intent_patterns.location, text) THEN Str("location")
       ELSE IF AnyIn(intent_patterns.timing, text) THEN Str("timing")
       ELSE IF AnyIn(intent_patterns.process, text) THEN Str("process")
       ELSE IF AnyIn(intent_patterns.contact, text) THEN Str("contact")
       ELSE IF AnyIn(intent_patterns.description, text) THEN Str("description")
       ELSE Str("general")

pronouns ==
    <<Str("it"), Str("this"), Str("that"), Str("they"), Str("these"),
      Str("those"), Str("there")>>

followup_phrases ==
    <<Str("what about"), Str("how about"), Str("tell me more"), Str("and"),
      Str("also"), Str("what else"), Str("more information")>>

conjunctions == <<Str("and"), Str("but"), Str("or"), Str("so")>>

\* NLUModule.is_followup_question(text, context); the context is not read
is_followup_question(text0) ==
    LET text == Lower(text0)
        padded == Str(" ") \o text \o Str(" ")
        has_pronouns ==
            \E i \in 1..Len(pronouns) :
                Contains(padded, Str(" ") \o pronouns[i] \o Str(" "))
        has_followup == AnyIn(followup_phrases, text)
        starts_with_conjunction ==
            \E i \in 1..Len(conjunctions) : StartsWith(text, conjunctions[i])
    IN has_pronouns \/ has_followup \/ starts_with_conjunction

\* NLUModule.analyze_query(query, context): the query q is a Python value; the
\* lower() of anything but a string raises, and the except branch answers
analyze_query(q, context_truthy) ==
    IF q.k # "str"
    THEN [error |-> SV(Str("object has no attribute 'lower'")),
          original_query |-> q]
    ELSE LET processed_query == preprocess_text(q.v)
         IN [original_query |-> q,
             processed_query |-> SV(processed_query),
             entities |-> LV(extract_entities(processed_query)),
             question_type |-> SV(detect_question_type(processed_query)),
             intent |-> SV(detect_intent(processed_query)),
             is_followup |-> is_followup_question(processed_query),
             context_used |-> context_truthy]

-----------------------------------------------------------------------------
(* EnhancedChatbot: the knowledge base, lookups and candidate responses    *)

\* knowledge_base.json as loaded by _load_knowledge_base: category -> entity
\* -> data (ordered dictionaries are lists of name/data pairs)
knowledge_base ==
    << [category |-> Str("locations"), items |-> <<
          [name |-> Str("Tech Park"), data |->
              [type |-> SV(Str("location")),
               description |-> SV(Str("A facility housing research labs")),
               address |-> SV(Str("SRM Nagar, Kattankulathur")),
               facilities |-> LV(<<Str("Research Labs"), Str("Innovation Center")>>)]] >>],
       [category |-> Str("facilities"), items |-> <<
          [name |-> Str("hostels"), data |->
              [type |-> SV(Str("facility")),
               description |-> SV(Str("On-campus accommodation")),
               amenities |-> LV(<<Str("Wi-Fi"), Str("Gym")>>)]] >>] >>

\* the acceptance threshold 0.6, the similarity floor 0.5 and the answer 1.0
AcceptThreshold == 60
SimilarityFloor == 50
ExactConfidence == 100
\* suggestions[:5], similar_entities[:3], top_k = 3
MaxSuggestions == 5
TopSimilar == 3
top_k == 3

\* the (category, item) pairs of the knowledge base in iteration order
RECURSIVE KBPairsFrom(_, _, _)
KBPairsFrom(base, c, i) ==
    IF c > Len(base) THEN <<>>
    ELSE IF i > Len(base[c].items) THEN KBPairsFrom(base, c + 1, 1)
    ELSE <<[category |-> base[c].category,
            name |-> base[c].items[i].name,
            data |-> base[c].items[i].data]>> \o KBPairsFrom(base, c, i + 1)

\* self.knowledge_base, which the operators below take as kb
KBPairs == KBPairsFrom(knowledge_base, 1, 1)

\* dict.get(key) and dict.get(key, default)
Get(d, key, default) == IF key \in DOMAIN d THEN d[key] ELSE default

\* the dictionary restricted to the keys in keep
Restrict(d, keep) == [key \in (DOMAIN d) \cap keep |-> d[key]]

\* the response of _get_entity_info for the entry found
EntityInfo(category, entity_data, entity, intent) ==
    LET response == [type |-> SV(intent), entity |-> SV(entity),
                     confidence |-> ExactConfidence]
    IN IF intent = Str("location")
       THEN Merge(response,
                  [address |-> Get(entity_data, "address", None),
                   location |-> Get(entity_data, "location", None),
                   map_link |-> Get(entity_data, "map_link", None)])
       ELSE IF intent = Str("description")
       THEN Merge(response,
                  [description |-> Get(entity_data, "description", None),
                   type_info |-> Get(entity_data, "type", None),
                   category |-> SV(category)])
       ELSE IF intent = Str("facilities")
       THEN Merge(response,
                  [facilities |->
                       LV(Get(entity_data, "facilities", LV(<<>>)).v
                          \o Get(entity_data, "amenities", LV(<<>>)).v),
                   description |-> Get(entity_data, "description", None)])
       ELSE IF intent = Str("contact")
       THEN Merge(response,
                  [contact |-> Get(entity_data, "contact", None),
                   additional_info |-> Get(entity_data, "description", None)])
       ELSE Merge(response,
                  Restrict(entity_data, (DOMAIN entity_data) \ {"id", "type"}))

\* EnhancedChatbot._get_entity_info(entity, intent): the first category
\* whose items hold the key entity answers (the keys are compared as they
\* are, case included)
RECURSIVE _get_entity_info(_, _, _)
_get_entity_info(kb, entity, intent) ==
    IF kb = <<>> THEN [confidence |-> 0]
    ELSE IF kb[1].name = entity
    THEN EntityInfo(kb[1].category, kb[1].data, entity, intent)
    ELSE _get_entity_info(Tail(kb), entity, intent)

\* the candidate strings of one knowledge-base entity
CandidatesOf(entity, data) ==
    <<entity \o Str(": ") \o Get(data, "description", SV(Str(""))).v>>
    \o (IF "facilities" \in DOMAIN data
        THEN <<entity \o Str(" facilities: ") \o Join(Str(", "), data.facilities.v)>>
        ELSE <<>>)
    \o (IF "address" \in DOMAIN data
        THEN <<entity \o Str(" is located at ") \o data.address.v>>
        ELSE <<>>)
    \o (IF "contact" \in DOMAIN data
        THEN <<Str("Contact ") \o entity \o Str(": ") \o data.contact.v>>
        ELSE <<>>)

\* EnhancedChatbot._get_candidate_responses
RECURSIVE _get_candidate_responses(_)
_get_candidate_responses(kb) ==
    IF kb = <<>> THEN <<>>
    ELSE CandidatesOf(kb[1].name, kb[1].data) \o _get_candidate_responses(Tail(kb))

\* the position of the first ':' of s, or 0
FirstColon(s) ==
    IF \E i \in 1..Len(s) : s[i] = ":"
    THEN CHOOSE i \in 1..Len(s) : s[i] = ":" /\ \A j \in 1..(i - 1) : s[j] # ":"
    ELSE 0

\* EnhancedChatbot._format_candidate_response
_format_candidate_response(candidate, confidence) ==
    LET c == FirstColon(candidate)
        entity == Strip(IF c = 0 THEN candidate ELSE SubSeq(candidate, 1, c - 1))
        info == IF c = 0 THEN Str("")
                ELSE Strip(SubSeq(candidate, c + 1, Len(candidate)))
        response_type ==
            IF Contains(candidate, Str("located at")) THEN Str("location")
            ELSE IF Contains(candidate, Str("facilities")) THEN Str("facilities")
            ELSE IF Contains(candidate, Str("Contact")) THEN Str("contact")
            ELSE Str("description")
    IN [type |-> SV(response_type), entity |-> SV(entity),
        description |-> SV(info), confidence |-> confidence]

\* numpy argsort of a short array: the indices in ascending order of value,
\* equal values in index order
RECURSIVE InsertIndex(_, _, _)
InsertIndex(sorted, i, sims) ==
    IF sorted = <<>> THEN <<i>>
    ELSE IF sims[sorted[Len(sorted)]] <= sims[i] THEN Append(sorted, i)
    ELSE Append(InsertIndex(SubSeq(sorted, 1, Len(sorted) - 1), i, sims),
                sorted[Len(sorted)])

RECURSIVE ArgsortFrom(_, _, _)
ArgsortFrom(sims, i, sorted) ==
    IF i > Len(sims) THEN sorted
    ELSE ArgsortFrom(sims, i + 1, InsertIndex(sorted, i, sims))

argsort(sims) == ArgsortFrom(sims, 1, <<>>)

Reverse(s) == [i \in 1..Len(s) |-> s[Len(s) + 1 - i]]

\* order[-k:][::-1] of a list of n items: -0 is 0, the whole list
LastReversed(order, n, k) ==
    Reverse(SubSeq(order, IF k > 0 /\ n > k THEN n - k + 1 ELSE 1, n))

\* the pairs find_best_matches returns for the indices chosen
Pairs(sims, candidates, top_indices) ==
    [j \in 1..Len(top_indices) |->
        [candidate |-> candidates[top_indices[j]],
         similarity |-> sims[top_indices[j]]]]

\* stands for an exception that leaves the call: a pair no ranking holds
\* (no candidate text is empty, no similarity explored is negative)
Exception == <<[candidate |-> <<>>, similarity |-> 0 - 1]>>

\* a ranking without the try block: the exceptions of the embedding model
\* and of cosine_similarity leave the call
ranking_without_try(sims, candidates, k, encode_fault) ==
    IF encode_fault \/ candidates = <<>> THEN Exception
    ELSE Pairs(sims, candidates, LastReversed(argsort(sims), Len(sims), k))

\* NLUModule.find_best_matches(query, candidates, top_k): sims[i] is the
\* cosine similarity of the query and candidates[i]; an embedding fault is
\* caught and answered by the empty list, and so is the ValueError that
\* cosine_similarity raises for an empty array of candidate embeddings
find_best_matches(sims, candidates, k, encode_fault) ==
    IF encode_fault \/ candidates = <<>> THEN <<>>
    ELSE Pairs(sims, candidates, LastReversed(argsort(sims), Len(sims), k))

\* list.sort(key=score, reverse=True): descending, equal scores in
\* their original order
RECURSIVE InsertDesc(_, _)
InsertDesc(sorted, x) ==
    IF sorted = <<>> THEN <<x>>
    ELSE IF sorted[Len(sorted)].similarity >= x.similarity THEN Append(sorted, x)
    ELSE Append(InsertDesc(SubSeq(sorted, 1, Len(sorted) - 1), x),
                sorted[Len(sorted)])

RECURSIVE SortDescFrom(_, _, _)
SortDescFrom(list, i, sorted) ==
    IF i > Len(list) THEN sorted
    ELSE SortDescFrom(list, i + 1, InsertDesc(sorted, list[i]))

SortDesc(list) == SortDescFrom(list, 1, <<>>)

\* the (kb_entity, similarity) pairs above the floor, for the entities of
\* the analysis in order; fs[e][j] is get_semantic_similarity(entities[e],
\* the j-th knowledge-base entity)
RECURSIVE SimilarFrom(_, _, _, _, _)
SimilarFrom(kb, fs, n, e, j) ==
    IF e > n THEN <<>>
    ELSE IF j > Len(kb) THEN SimilarFrom(kb, fs, n, e + 1, 1)
    ELSE (IF fs[e][j] > SimilarityFloor
          THEN <<[entity |-> kb[j].name, similarity |-> fs[e][j]]>>
          ELSE <<>>) \o SimilarFrom(kb, fs, n, e, j + 1)

RECURSIVE SuggestionsFor(_)
SuggestionsFor(similar) ==
    IF similar = <<>> THEN <<>>
    ELSE << Str("What is ") \o similar[1].entity \o Str("?"),
            Str("Tell me about ") \o similar[1].entity,
            Str("Where is ") \o similar[1].entity \o Str(" located?") >>
         \o SuggestionsFor(Tail(similar))

popular_topics ==
    << Str("Tell me about the Kattankulathur Campus"),
       Str("What facilities are available in Tech Park?"),
       Str("How can I contact the admissions office?"),
       Str("What are the hostel facilities?"),
       Str("Where is the Central Library?") >>

\* the suggestions of the fallback before they are cut to five
Suggestions(similar_entities) ==
    IF similar_entities # <<>>
    THEN SuggestionsFor(Take(similar_entities, TopSimilar))
    ELSE popular_topics

\* _generate_fallback_response without the cut of the suggestions to five
fallback_without_limit(kb, analysis, fs) ==
    [type |-> SV(Str("fallback")),
     message |-> SV(Str("I'm not quite sure about that.")),
     suggestions |->
        LV(Suggestions(SortDesc(SimilarFrom(kb, fs, Len(analysis.entities.v), 1, 1)))),
     confidence |-> 0]

\* EnhancedChatbot._generate_fallback_response
_generate_fallback_response(kb, analysis, fs) ==
    [type |-> SV(Str("fallback")),
     message |-> SV(Str("I'm not quite sure about that.")),
     suggestions |->
        LV(Take(Suggestions(SortDesc(SimilarFrom(kb, fs, Len(analysis.entities.v), 1, 1))),
                MaxSuggestions)),
     confidence |-> 0]

\* lines 123-135 of _find_best_match: the semantic search over the
\* candidates, then the fallback
SemanticMatch(candidates, best_matches, kb, analysis, fs) ==
    IF /\ candidates # <<>>
       /\ best_matches # <<>>
       /\ best_matches[1].similarity > AcceptThreshold
    THEN _format_candidate_response(best_matches[1].candidate,
                                    best_matches[1].similarity)
    ELSE _generate_fallback_response(kb, analysis, fs)

\* lines 117-121 of _find_best_match: the first entity whose lookup is
\* accepted answers; otherwise the search follows
RECURSIVE ExactMatch(_, _, _, _, _, _, _)
ExactMatch(ents, intent, kb, analysis, encode_fault, sims, fs) ==
    IF ents = <<>>
    THEN SemanticMatch(_get_candidate_responses(kb),
                       find_best_matches(sims, _get_candidate_responses(kb),
                                         top_k, encode_fault),
                       kb, analysis, fs)
    ELSE IF _get_entity_info(kb, ents[1], intent).confidence > AcceptThreshold
    THEN _get_entity_info(kb, ents[1], intent)
    ELSE ExactMatch(Tail(ents), intent, kb, analysis, encode_fault, sims, fs)

\* EnhancedChatbot._find_best_match: exact lookups, then the semantic
\* search, then the fallback
_find_best_match(kb, analysis, encode_fault, sims, fs) ==
    ExactMatch(analysis.entities.v, analysis.intent.v,
               kb, analysis, encode_fault, sims, fs)

\* lines 99-106 of _handle_followup: is the answer about the current
\* entity accepted
FollowupAccepted(current_entity, response) ==
    /\ current_entity.k = "str"
    /\ current_entity.v # <<>>
    /\ response.confidence > AcceptThreshold

\* the intent a follow-up is answered with
new_intent(analysis, current_intent) ==
    IF analysis.intent.v # Str("general") THEN analysis.intent ELSE current_intent

\* EnhancedChatbot._handle_followup
_handle_followup(kb, analysis, context, encode_fault, sims, fs) ==
    IF FollowupAccepted(
           context.current_entity,
           _get_entity_info(kb, context.current_entity.v,
                            new_intent(analysis, context.current_intent).v))
    THEN _get_entity_info(kb, context.current_entity.v,
                          new_intent(analysis, context.current_intent).v)
    ELSE _find_best_match(kb, analysis, encode_fault, sims, fs)

-----------------------------------------------------------------------------
(* ContextManager and ResponseFormatter: the session context store and the *)
(* presentation layer the chatbot calls                                    *)

VARIABLES sessions, contexts, ec_last, orb_context, orb_last, rank_last, simple_last,
          orb_calls

\* the number of recorded turns explored
MaxTurns == 2

\* the session ids the store hands out
SessionIds == {1}
\* session_id = None
NoSession == 0

default_context ==
    [current_entity |-> None, current_intent |-> None,
     history |-> <<>>, mentioned_entities |-> {}]

\* ContextManager.get_context
get_context(session_id) == contexts[session_id]

\* does the response carry a resolved entity above the acceptance threshold
Resolved(response) ==
    /\ "entity" \in DOMAIN response
    /\ response.confidence > AcceptThreshold

\* ContextManager.update_context(session_id, query, response, entities,
\* intent): the turn is appended; a resolved response moves the anchor
update_context(context, q, response, ents, intent) ==
    [history |-> Append(context.history,
                        [query |-> q, response |-> response,
                         entities |-> ents, intent |-> intent]),
     current_entity |->
        IF Resolved(response) THEN response.entity ELSE context.current_entity,
     current_intent |->
        IF Resolved(response) THEN intent ELSE context.current_intent,
     mentioned_entities |->
        IF Resolved(response)
        THEN context.mentioned_entities \cup {response.entity.v}
        ELSE context.mentioned_entities]

\* ContextManager.get_conversation_summary
get_conversation_summary(context) ==
    [num_interactions |-> Len(context.history),
     mentioned_entities |-> context.mentioned_entities,
     current_topic |-> context.current_entity]

\* ResponseFormatter.format_response: the structured result with its text
format_response(response) ==
    Merge(response,
          [response |->
              IF "message" \in DOMAIN response THEN response.message
              ELSE IF "entity" \in DOMAIN response THEN response.entity
              ELSE SV(Str(""))])

-----------------------------------------------------------------------------
(* EnhancedChatbot.process_query                                           *)

\* the queries submitted
Queries ==
    { SV(Str("Where is Tech Park?")),
      SV(Str("Tell me about hostels")),
      SV(Str("where is it?")),
      SV(Str("Where is it located?")),
      SV(Str("What are its timings?")),
      SV(Str("What facilities does it have?")),
      SV(Str("What is the meaning of life?")),
      SV(Str("What about that thing?")),
      SV(Str("")),
      None }

\* analyze_query of each query (the context only sets context_used)
Analyses == [q \in Queries |-> analyze_query(q, TRUE)]

\* the similarities the embedding model may report for the candidates:
\* one candidate stands out, the first exactly at the threshold, or the
\* first or the last above it
SimLow == 10
SimHigh == 80
CandidateSims ==
    LET n == Len(_get_candidate_responses(KBPairs))
    IN {[i \in 1..n |-> IF i = 1 THEN AcceptThreshold ELSE SimLow]}
       \cup {[i \in 1..n |-> IF i = b THEN SimHigh ELSE SimLow] : b \in {1, n}}

\* the similarities of one extracted entity to the knowledge-base entities:
\* all at the floor, all equal above it, or rising along the knowledge base
FallbackSims ==
    LET n == Len(KBPairs)
    IN { [j \in 1..n |-> SimilarityFloor],
         [j \in 1..n |-> SimHigh],
         [j \in 1..n |-> SimHigh + j] }

TotalTurns ==
    LET RECURSIVE Sum(_)
        Sum(S) == IF S = {} THEN 0
                  ELSE LET s == CHOOSE s \in S : TRUE
                       IN Len(contexts[s].history) + Sum(S \ {s})
    IN Sum(SessionIds)

ECInit ==
    /\ sessions = {}
    /\ contexts = [s \in SessionIds |-> default_context]
    /\ ec_last = [op |-> "init"]

\* uuid.uuid4(): an id no conversation has
FreshIds == SessionIds \ sessions

\* EnhancedChatbot.start_conversation
StartConversation ==
    \E sid \in FreshIds :
        /\ sessions' = sessions \cup {sid}
        /\ contexts' = [contexts EXCEPT ![sid] = default_context]
        /\ ec_last' = [op |-> "start_conversation", session_id |-> sid]
        /\ UNCHANGED <<kgvars, orb_context, orb_last, rank_last, simple_last, orb_calls>>

\* lines 59-64 of process_query: a follow-up is answered from the context,
\* any other query by the best match
Resolve(kb, analysis, context, encode_fault, sims, fs) ==
    IF analysis.is_followup
    THEN _handle_followup(kb, analysis, context, encode_fault, sims, fs)
    ELSE _find_best_match(kb, analysis, encode_fault, sims, fs)

\* lines 66-82 of process_query: the context is updated, the response is
\* formatted and the conversation metadata added
Finish(response, updated, sid) ==
    [raised |-> FALSE,
     response |-> response,
     returned |->
         Merge(format_response(response),
               [session_id |-> sid,
                conversation_summary |-> get_conversation_summary(updated)]),
     context |-> updated]

\* the body of process_query's try block once the session is known; the
\* lookup of analysis['is_followup'] raises KeyError on an error analysis
\* and the except branch answers
Respond(kb, analysis, q, context, sid, response) ==
    IF "is_followup" \notin DOMAIN analysis
    THEN [raised |-> TRUE,
          returned |-> [type |-> SV(Str("error")),
                        message |-> SV(Str("I'm sorry, but I encountered an error processing your request.")),
                        confidence |-> 0],
          context |-> context]
    ELSE Finish(response,
                update_context(context, q, response,
                               analysis.entities, analysis.intent),
                sid)

\* EnhancedChatbot.process_query(query, session_id): a call without a
\* session id starts a conversation
process_query(kb, analysis, q, session_id, encode_fault, sims, fs) ==
    /\ session_id = NoSession => FreshIds # {}
    /\ \E sid \in {IF session_id = NoSession
                   THEN CHOOSE s \in FreshIds : TRUE ELSE session_id} :
       \E context \in {IF session_id = NoSession
                       THEN default_context ELSE get_context(sid)} :
       \E r \in {Respond(kb, analysis, q, context, sid,
                         Resolve(kb, analysis, context, encode_fault, sims, fs))} :
          /\ sessions' = sessions \cup {sid}
          /\ contexts' = [contexts EXCEPT ![sid] = r.context]
          /\ ec_last' = [op |-> "process_query", query |-> q, session_id |-> sid,
                         before |-> context, encode_fault |-> encode_fault,
                         raised |-> r.raised, returned |-> r.returned]

\* the oracle answers that stand for calls the query does not make
NoSims == [i \in 1..Len(_get_candidate_responses(KBPairs)) |-> SimLow]
NoFallbackSims(kb, analysis) ==
    [e \in 1..Len(Get(analysis, "entities", LV(<<>>)).v) |->
        [j \in 1..Len(kb) |-> SimLow]]

\* is the response the fallback
IsFallback(analysis, response) ==
    /\ "is_followup" \in DOMAIN analysis
    /\ response.type = SV(Str("fallback"))

\* does the call reach find_best_matches: only the semantic search leads
\* to the fallback, so a failed search shows it was reached
ReachesSearch(kb, analysis, context) ==
    IsFallback(analysis,
               Resolve(kb, analysis, context, TRUE, NoSims,
                       NoFallbackSims(kb, analysis)))

\* does the call reach _generate_fallback_response under these answers
ReachesFallback(kb, analysis, context, encode_fault, sims) ==
    IsFallback(analysis,
               Resolve(kb, analysis, context, encode_fault, sims,
                       NoFallbackSims(kb, analysis)))

\* the context the call works on
ContextOf(session_id) ==
    IF session_id = NoSession THEN default_context ELSE get_context(session_id)

\* a query arrives for a conversation or for none; the embedding model
\* answers the calls the query makes
ProcessQuery ==
    /\ TotalTurns < MaxTurns
    /\ \E q \in Queries, session_id \in sessions \cup {NoSession} :
       \E kb \in {KBPairs}, analysis \in {Analyses[q]} :
       \E search \in {ReachesSearch(kb, analysis, ContextOf(session_id))} :
       \E encode_fault \in (IF search THEN BOOLEAN ELSE {FALSE}) :
       \E sims \in (IF search /\ ~encode_fault THEN CandidateSims ELSE {NoSims}) :
       \E fs \in (IF ReachesFallback(kb, analysis, ContextOf(session_id),
                                     encode_fault, sims)
                  THEN [1..Len(analysis.entities.v) -> FallbackSims]
                  ELSE {NoFallbackSims(kb, analysis)}) :
           /\ process_query(kb, analysis, q, session_id, encode_fault, sims, fs)
           /\ UNCHANGED <<kgvars, orb_context, orb_last, rank_last, simple_last, orb_calls>>

\* a summary request that records itself as a turn of the conversation
summary_recording_a_turn(session_id) ==
    /\ sessions' = sessions
    /\ contexts' = [contexts EXCEPT ![session_id].history =
                        Append(@, [query |-> None, response |-> EmptyDict,
                                   entities |-> LV(<<>>), intent |-> None])]
    /\ ec_last' = [op |-> "get_conversation_summary", session_id |-> session_id,
                   before |-> get_context(session_id),
                   returned |-> get_conversation_summary(get_context(session_id))]

\* EnhancedChatbot.get_conversation_summary(session_id): the store's
\* summary of the session is handed back
chatbot_get_conversation_summary(session_id) ==
    /\ sessions' = sessions
    /\ contexts' = contexts
    /\ ec_last' = [op |-> "get_conversation_summary", session_id |-> session_id,
                   before |-> get_context(session_id),
                   returned |-> get_conversation_summary(get_context(session_id))]

GetConversationSummary ==
    \E session_id \in sessions :
        /\ chatbot_get_conversation_summary(session_id)
        /\ UNCHANGED <<kgvars, orb_context, orb_last, rank_last, simple_last, orb_calls>>

ecvars == <<sessions, contexts, ec_last>>

-----------------------------------------------------------------------------
(* NLUModule.find_best_matches under calls                                 *)
(* rank_last  the last call of find_best_matches and what it returned      *)

\* the number of candidates ranked
MaxCandidates == 4

\* n candidate texts, each different from the others: "a", "aa", ...
RankCandidates(n) == [i \in 1..n |-> [j \in 1..i |-> "a"]]

\* the similarities the embedding model may report
RankSims(n) == [1..n -> {SimLow, AcceptThreshold, SimHigh}]

RankInit == rank_last = [op |-> "init"]

\* one call of find_best_matches with a positive top_k; the embedding
\* model answers or fails
FindBestMatches ==
    /\ rank_last.op = "init"
    /\ \E n \in 0..MaxCandidates, k \in 1..MaxCandidates, encode_fault \in BOOLEAN :
       \E sims \in RankSims(n), candidates \in {RankCandidates(n)} :
       \E r \in {find_best_matches(sims, candidates, k, encode_fault)} :
          /\ rank_last' = [op |-> "find_best_matches", sims |-> sims,
                           candidates |-> candidates, top_k |-> k,
                           encode_fault |-> encode_fault,
                           raised |-> (r = Exception),
                           returned |-> IF r = Exception THEN <<>> ELSE r]
          /\ UNCHANGED <<kgvars, ecvars, orb_context, orb_last, simple_last, orb_calls>>

rankvars == <<rank_last>>

-----------------------------------------------------------------------------
(* TextProcessor: classification of a question                             *)

\* does some occurrence of pat in text have a character after it (the
\* regular expression pat(.+) under re.search)
MatchesThenSome(text, pat) ==
    \E i \in 0..(Len(text) - Len(pat) - 1) :
        \A j \in 1..Len(pat) : text[i + j] = pat[j]

AnyThenSome(pats, text) == \E i \in 1..Len(pats) : MatchesThenSome(text, pats[i])

\* self.greeting_patterns: a greeting at the start, then whitespace or the end
greeting_patterns ==
    <<Str("hi"), Str("hello"), Str("hey"), Str("greetings"),
      Str("good morning"), Str("good afternoon"), Str("good evening"),
      Str("goodmorning"), Str("goodafternoon"), Str("goodevening"),
      Str("how are you"), Str("howareyou"), Str("what's up"), Str("what'sup")>>

IsGreeting(text) ==
    \E i \in 1..Len(greeting_patterns) :
        /\ StartsWith(text, greeting_patterns[i])
        /\ \/ Len(text) = Len(greeting_patterns[i])
           \/ IsSpace(text[Len(greeting_patterns[i]) + 1])

\* self.question_patterns of TextProcessor, each pattern as the prefixes
\* that a captured (.+) must follow
tp_question_patterns ==
    [location |->
        <<Str("where is "), Str("where are "), Str("where can i find "),
          Str("location of "), Str("location to "), Str("location for "),
          Str("address of "), Str("address to "), Str("address for "),
          Str("direction of "), Str("direction to "), Str("direction for "),
          Str("directions of "), Str("directions to "), Str("directions for "),
          Str("how do i get "), Str("how do i reach "), Str("how do i find "),
          Str("how do we get "), Str("how do we reach "), Str("how do we find "),
          Str("how can i get "), Str("how can i reach "), Str("how can i find "),
          Str("how can we get "), Str("how can we reach "), Str("how can we find "),
          Str("show me where "), Str("show me how to get to ")>>,
     factual |->
        <<Str("what is "), Str("what are "), Str("tell me about "),
          Str("information about "), Str("information on "), Str("information for "),
          Str("details about "), Str("details on "), Str("details for "),
          Str("describe ")>>,
     procedural |->
        <<Str("how do i "), Str("how do we "), Str("how can i "),
          Str("how can we "), Str("how should i "), Str("how should we "),
          Str("what are the steps to "), Str("what are the steps for "),
          Str("what are the process to "), Str("what are the process for "),
          Str("what are the procedure to "), Str("what are the procedure for "),
          Str("what is the steps to "), Str("what is the steps for "),
          Str("what is the process to "), Str("what is the process for "),
          Str("what is the procedure to "), Str("what is the procedure for "),
          Str("guide me through "), Str("guide me on "),
          Str("guide us through "), Str("guide us on "),
          Str("explain how to ")>>,
     comparative |->
        <<Str("compare "), Str("difference between "),
          Str("which is better "), Str("which is worse "),
          Str("which is more "), Str("which is less "),
          Str("what are the pros of "), Str("what are the cons of "),
          Str("what are the advantages of "), Str("what are the disadvantages of ")>>]

\* 'how does (.+) compare to (.+)'
MatchesCompareTo(text) ==
    \E i \in 0..(Len(text) - 1), j \in 1..Len(text) :
        /\ j > i + Len(Str("how does ")) + 1
        /\ SubSeq(text, i + 1, i + Len(Str("how does "))) = Str("how does ")
        /\ j + Len(Str(" compare to ")) <= Len(text)
        /\ SubSeq(text, j, j + Len(Str(" compare to ")) - 1) = Str(" compare to ")

\* TextProcessor._match_question_type
_match_question_type(text) ==
    IF AnyThenSome(tp_question_patterns.location, text) THEN "location"
    ELSE IF AnyThenSome(tp_question_patterns.factual, text) THEN "factual"
    ELSE IF AnyThenSome(tp_question_patterns.procedural, text) THEN "procedural"
    ELSE IF AnyThenSome(tp_question_patterns.comparative, text)
            \/ MatchesCompareTo(text) THEN "comparative"
    ELSE "unknown"

\* self.entity_patterns: the texts the capturing groups take
campus_names ==
    <<Str("kattankulathur"), Str("chennai"), Str("delhi-ncr"), Str("modinagar"),
      Str("ramapuram"), Str("vadapalani"), Str("amaravati"), Str("sikkim")>>

facility_names ==
    <<Str("tech park"), Str("techpark"), Str("library"), Str("hostel"),
      Str("cafeteria"), Str("sports complex"), Str("sportscomplex"),
      Str("gymnasium"), Str("labs"), Str("auditorium"),
      Str("central library"), Str("centrallibrary"),
      Str("main building"), Str("mainbuilding"),
      Str("university building"), Str("universitybuilding"),
      Str("admin block"), Str("adminblock")>>

\* the program patterns capture the empty string after these words
degree_words ==
    <<Str("b.tech"), Str("btech"), Str("m.tech"), Str("mtech"), Str("bba"),
      Str("mba"), Str("phd"), Str("diploma"),
      Str("bachelor of"), Str("bachelors of"), Str("bachelor in"),
      Str("bachelors in"), Str("master of"),
      Str("masters of"), Str("master in"), Str("masters in")>>

\* 'labs?' takes "lab" where no "s" follows
HasLabAlone(text) ==
    \E i \in 0..(Len(text) - 3) :
        /\ SubSeq(text, i + 1, i + 3) = Str("lab")
        /\ (i + 4 > Len(text) \/ text[i + 4] # "s")

RECURSIVE Containing(_, _)
Containing(names, text) ==
    IF names = <<>> THEN <<>>
    ELSE (IF Contains(text, names[1]) THEN <<names[1]>> ELSE <<>>)
         \o Containing(Tail(names), text)

\* the distinct elements of a list, each at its first position
RECURSIVE Dedup(_)
Dedup(list) ==
    IF list = <<>> THEN <<>>
    ELSE LET rest == Dedup(SubSeq(list, 1, Len(list) - 1))
         IN IF InList(list[Len(list)], rest) THEN rest
            ELSE Append(rest, list[Len(list)])

\* TextProcessor._extract_entities before list(set(...)) orders them
RegexEntities(text) ==
    Dedup(Containing(campus_names, text)
          \o Containing(facility_names, text)
          \o (IF HasLabAlone(text) THEN <<Str("lab")>> ELSE <<>>)
          \o (IF AnyIn(degree_words, text) THEN <<Str("")>> ELSE <<>>))

\* list(set(entities)): the elements in one of the orders a set may have
SetOrders(list) ==
    {list, Reverse(list)}

\* the context _extract_context returns when spaCy finds nothing
base_context ==
    [time_reference |-> None, location_reference |-> None,
     comparison_aspects |-> LV(<<>>), requirements |-> LV(<<>>)]

\* the words of the text that spaCy may return as noun chunks
NounChunks(text) ==
    LET words == word_tokenize(text)
    IN {<<>>} \cup {<<words[i]>> : i \in {j \in 1..Len(words) : IsNounTag(words[j])}}

\* the tokens spaCy may label GPE or LOC
PlaceTokens(text) ==
    LET words == Split(text)
    IN {words[i] : i \in {j \in 1..Len(words) : InList(words[j], campus_names)}}

\* the answers of the spaCy pipeline for a text: the type of the nearest
\* exemplar, the noun chunks and the extracted context
SemanticTypes == {"location", "factual", "procedural", "comparative", "unknown"}

Contexts(text) ==
    {base_context}
    \cup {[base_context EXCEPT !.location_reference = SV(w)] : w \in PlaceTokens(text)}

\* TextProcessor.classify_question(query) under the pipeline's answers
classify_question(q, sem_type, sem_entities, ordered, context) ==
    LET text == Strip(Lower(q))
        question_type == _match_question_type(text)
    IN IF IsGreeting(text)
       THEN [type |-> "greeting", entities |-> <<>>, context |-> EmptyDict]
       ELSE [type |-> IF question_type = "unknown" THEN sem_type ELSE question_type,
             entities |-> IF ordered = <<>> THEN sem_entities ELSE ordered,
             context |-> context]


-----------------------------------------------------------------------------
(* ORBAI: one conversation context for the whole process                   *)
(* orb_context  self.context (timestamps of the history left out)          *)
(* orb_last     the last call of process_query and how it ended            *)

NL == <<"\n">>

QT(t) == [k |-> "QuestionType", v |-> t]

\* bool(value) for a value held in the context
Truthy(value) == value.k # "none" /\ value.v # <<>>

\* self.context as ORBAI.__init__ leaves it
orb_initial_context ==
    [last_question_type |-> None,
     last_entities |-> None,
     current_topic |-> None,
     conversation_history |-> <<>>,
     referenced_entities |-> {},
     follow_up_context |-> EmptyDict,
     clarification_needed |-> FALSE]

\* str(value) inside an f-string
RECURSIVE Quoted(_)
Quoted(list) ==
    IF list = <<>> THEN <<>>
    ELSE <<Str("'") \o list[1] \o Str("'")>> \o Quoted(Tail(list))

PyStr(value) ==
    IF value.k = "str" THEN value.v
    ELSE IF value.k = "list" THEN Str("[") \o Join(Str(", "), Quoted(value.v)) \o Str("]")
    ELSE Str("None")

\* unique_items of format_response: one item per id, at the position of
\* the id's first item and with the contents of its last
RECURSIVE UniqueItems(_, _)
UniqueItems(data, acc) ==
    IF data = <<>> THEN acc
    ELSE LET item == data[1]
             at == {i \in 1..Len(acc) : ValEq(acc[i].id, item.id)}
         IN UniqueItems(Tail(data),
                IF at = {} THEN Append(acc, item)
                ELSE [acc EXCEPT ![CHOOSE i \in at : TRUE] = item])

ItemLines(item) ==
    (IF "address" \in DOMAIN item
     THEN <<Str("Address: ") \o PyStr(item.address)>> ELSE <<>>)
    \o (IF "description" \in DOMAIN item
        THEN <<Str("Description: ") \o PyStr(item.description)>> ELSE <<>>)
    \o (IF "facilities" \in DOMAIN item
        THEN <<Str("Facilities: ")
               \o (IF item.facilities.k = "list"
                   THEN Join(Str(", "), item.facilities.v)
                   ELSE PyStr(item.facilities))>>
        ELSE <<>>)
    \o (IF "map_link" \in DOMAIN item
        THEN <<Str("Map: ") \o PyStr(item.map_link)>> ELSE <<>>)

RECURSIVE AllLines(_)
AllLines(items) ==
    IF items = <<>> THEN <<>> ELSE ItemLines(items[1]) \o AllLines(Tail(items))

\* TextProcessor.format_response(QuestionType.LOCATION, data)
format_location(data) ==
    IF data = <<>>
    THEN Str("I'm sorry, I couldn't find information about that location.")
    ELSE Join(NL \o NL, AllLines(UniqueItems(data, <<>>)))

\* TextProcessor.format_response(QuestionType.GREETING, {})
format_greeting ==
    Str("Hello! I'm ORB AI, your SRMIST Knowledge Assistant. I can help you with:") \o NL
    \o Str("- Campus locations and facilities") \o NL
    \o Str("- Academic programs and courses") \o NL
    \o Str("- Admission procedures") \o NL
    \o Str("- Student facilities") \o NL \o NL
    \o Str("What would you like to know about?")

\* ORBAI._is_follow_up_question(query, classification)
_is_follow_up_question(context, q, classification) ==
    LET orb_pronouns == <<Str("it"), Str("this"), Str("that"), Str("these"),
                          Str("those"), Str("they"), Str("there")>>
        words == Split(Lower(q))
        has_pronouns == \E i \in 1..Len(orb_pronouns) : InList(orb_pronouns[i], words)
        has_no_entities == classification.entities = <<>>
        has_previous_context == Truthy(context.last_entities)
    IN has_pronouns \/ (has_no_entities /\ has_previous_context)

\* ORBAI._resolve_references(current_entities, query); list(set(...)) gives
\* the distinct entities in the order set_order picks
_resolve_references(context, current_entities, q, set_order) ==
    LET words == <<Str("same"), Str("this"), Str("that"), Str("it")>>
        previous ==
            IF current_entities = <<>> /\ Truthy(context.last_entities)
               /\ AnyIn(words, Lower(q))
            THEN context.last_entities.v ELSE <<>>
        relevant ==
            IF "relevant_entities" \in DOMAIN context.follow_up_context
               /\ Truthy(context.follow_up_context.relevant_entities)
            THEN context.follow_up_context.relevant_entities.v ELSE <<>>
        resolved == Dedup(current_entities \o previous \o relevant)
    IN IF set_order = "reversed" THEN Reverse(resolved) ELSE resolved

\* the loop of _handle_location_query: the items found and the follow-up
\* context it leaves
RECURSIVE LocationLoop(_, _, _, _)
LocationLoop(g, ents, response_data, follow_up_context) ==
    IF ents = <<>>
    THEN [response_data |-> response_data, follow_up_context |-> follow_up_context]
    ELSE LET entity == ents[1]
             campus_info == query(g, Str("campus"), [id |-> SV(entity)])
             location_info == query(g, Str("location"), [id |-> SV(entity)])
             search_results == search_by_text(g, entity)
         IN IF campus_info # <<>>
            THEN LocationLoop(g, Tail(ents), response_data \o campus_info,
                     Merge(follow_up_context, [campus |-> SV(entity)]))
            ELSE IF location_info # <<>>
            THEN LocationLoop(g, Tail(ents), response_data \o location_info,
                     Merge(follow_up_context, [location |-> SV(entity)]))
            ELSE IF search_results # <<>>
            THEN LocationLoop(g, Tail(ents), response_data \o search_results,
                     Merge(follow_up_context, [search_terms |-> SV(entity)]))
            ELSE LocationLoop(g, Tail(ents), response_data, follow_up_context)

\* the response of _handle_location_query after its loop
LocationResponse(context, loop) ==
    [raised |-> "none",
     response |-> [type |-> Str("location"),
                   information |-> loop.response_data,
                   formatted_answer |-> format_location(loop.response_data)],
     context |-> [context EXCEPT !.follow_up_context = loop.follow_up_context]]

\* ORBAI._handle_location_query(entities, context)
_handle_location_query(g, context, ents) ==
    LocationResponse(context,
                     LocationLoop(g, ents, <<>>, context.follow_up_context))

\* entity_type.rstrip('s')
RECURSIVE rstrip_s(_)
rstrip_s(s) ==
    IF s # <<>> /\ s[Len(s)] = "s" THEN rstrip_s(SubSeq(s, 1, Len(s) - 1)) ELSE s

\* iterating a value: the characters of a string, the elements of a list
Elements(value) ==
    IF value.k = "str" THEN [i \in 1..Len(value.v) |-> <<value.v[i]>>] ELSE value.v

\* the keys of the dictionary _extract_context builds, in insertion order
context_keys ==
    <<"time_reference", "location_reference", "comparison_aspects", "requirements">>

KeyText ==
    [time_reference |-> Str("time_reference"),
     location_reference |-> Str("location_reference"),
     comparison_aspects |-> Str("comparison_aspects"),
     requirements |-> Str("requirements")]

\* the entities of one dictionary entry that the graph holds under the
\* entry's key as a type
RECURSIVE DirectHits(_, _, _)
DirectHits(g, entity_type, list) ==
    IF list = <<>> THEN <<>>
    ELSE LET info == query(g, entity_type, [id |-> SV(list[1])])
         IN (IF info # <<>> THEN <<[entity |-> list[1], info |-> info[1]]>> ELSE <<>>)
            \o DirectHits(g, entity_type, Tail(list))

\* the first loop of the class's last _handle_factual_query(text, entities)
\* over the keys from position i: iterating None raises TypeError
RECURSIVE FactualLoop(_, _, _, _)
FactualLoop(g, ents, i, information) ==
    IF i > Len(context_keys) \/ context_keys[i] \notin DOMAIN ents
    THEN [raised |-> "none", information |-> information]
    ELSE LET value == ents[context_keys[i]]
         IN IF value.k = "none"
            THEN [raised |-> "TypeError", information |-> information]
            ELSE FactualLoop(g, ents, i + 1,
                     information
                     \o DirectHits(g, rstrip_s(KeyText[context_keys[i]]), Elements(value)))

\* the rest of _handle_factual_query after its first loop
FactualResponse(context, loop) ==
    IF loop.raised # "none"
    THEN [raised |-> loop.raised, context |-> context]
    ELSE IF loop.information = <<>>
    THEN [raised |-> "AttributeError", context |-> context]
    ELSE [raised |-> "none",
          response |-> [type |-> Str("factual"), information |-> loop.information],
          context |-> context]

\* ORBAI._handle_factual_query as the class holds it: the definition at the
\* end of the class, called with (entities, context) for (text, entities);
\* search_by_text of a list raises AttributeError
_handle_factual_query(g, context, text, ents) ==
    FactualResponse(context, FactualLoop(g, ents, 1, <<>>))

\* ORBAI._handle_procedural_query as the class holds it: "change campus" in
\* text is membership in the list of entities
_handle_procedural_query(context, text, ents) ==
    LET transfer == InList(Str("change campus"), text)
                    \/ InList(Str("campus transfer"), text)
    IN [raised |-> "none",
        response |->
            IF transfer
            THEN [type |-> Str("procedural"),
                  steps |-> <<Str("1. Submit application to current campus office"),
                              Str("2. Obtain No Objection Certificate (NOC)"),
                              Str("3. Apply to target campus"),
                              Str("4. Wait for approval from both campuses"),
                              Str("5. Complete transfer formalities")>>,
                  contact |-> Str("transfer.office@srmist.edu.in")]
            ELSE [type |-> Str("procedural"), steps |-> <<>>],
        context |-> context]

\* ORBAI._handle_comparative_query as the class holds it: entities is the
\* context dictionary, and a missing key raises KeyError
_handle_comparative_query(g, context, text, ents) ==
    IF "campuses" \notin DOMAIN ents
    THEN [raised |-> "KeyError", context |-> context]
    ELSE IF ~Truthy(ents.campuses) /\ "programs" \notin DOMAIN ents
    THEN [raised |-> "KeyError", context |-> context]
    ELSE [raised |-> "none",
          response |-> [type |-> Str("comparative"),
                        comparisons |->
                            DirectHits(g, Str("campus"),
                                IF Truthy(ents.campuses) THEN Elements(ents.campuses)
                                ELSE <<>>)],
          context |-> context]

\* ORBAI._process_by_type(question_type, entities, context)
_process_by_type(g, context, question_type, ents, query_context) ==
    IF question_type = "greeting"
    THEN [raised |-> "none",
          response |-> [type |-> Str("greeting"), formatted_answer |-> format_greeting],
          context |-> context]
    ELSE IF question_type = "location"
    THEN _handle_location_query(g, context, ents)
    ELSE IF question_type = "factual"
    THEN _handle_factual_query(g, context, ents, query_context)
    ELSE IF question_type = "procedural"
    THEN _handle_procedural_query(context, ents, query_context)
    ELSE IF question_type = "comparative"
    THEN _handle_comparative_query(g, context, ents, query_context)
    ELSE [raised |-> "none",
          response |->
              [type |-> Str("unknown"),
               formatted_answer |->
                   Str("I'm sorry, I don't understand that type of question yet.")],
          context |-> context]

\* ORBAI.find_similar_questions(query)
find_similar_questions(q0) ==
    LET q == Lower(q0)
        suggestions ==
            IF Contains(q, Str("where"))
            THEN (IF Contains(q, Str("srm"))
                  THEN <<Str("What are the different SRM campuses?"),
                         Str("Where is SRM Kattankulathur campus located?"),
                         Str("How to reach SRM main campus?")>>
                  ELSE <<>>)
                 \o (IF AnyIn(<<Str("tech park"), Str("library"), Str("hostel")>>, q)
                     THEN <<Str("What facilities are available in Tech Park?"),
                            Str("Where is the Central Library located?"),
                            Str("What are the hostel facilities?")>>
                     ELSE <<>>)
            ELSE IF Contains(q, Str("how"))
            THEN (IF AnyIn(<<Str("admission"), Str("apply"), Str("join")>>, q)
                  THEN <<Str("How to apply for admission at SRM?"),
                         Str("What are the admission requirements?"),
                         Str("How to apply for international admission?")>>
                  ELSE <<>>)
                 \o (IF Contains(q, Str("reach"))
                     THEN <<Str("How to reach SRM from Chennai airport?"),
                            Str("What transportation facilities are available?"),
                            Str("Is there a college bus service?")>>
                     ELSE <<>>)
            ELSE IF AnyIn(<<Str("program"), Str("course"), Str("degree")>>, q)
            THEN <<Str("What programs are offered at SRM?"),
                   Str("Which engineering branches are available?"),
                   Str("What are the postgraduate programs?")>>
            ELSE IF AnyIn(<<Str("facility"), Str("amenity"), Str("infrastructure")>>, q)
            THEN <<Str("What facilities are available at SRM?"),
                   Str("What sports facilities are available?"),
                   Str("Tell me about the hostel facilities")>>
            ELSE <<>>
    IN Take(Dedup(suggestions), 3)

RECURSIVE Bulleted(_)
Bulleted(list) ==
    IF list = <<>> THEN <<>>
    ELSE <<Str("- ") \o list[1]>> \o Bulleted(Tail(list))

\* the response of _handle_fallback for the similar questions found
FallbackResponse(context, q, classification, similar_questions) ==
    IF similar_questions # <<>>
    THEN [type |-> Str("suggestion"),
          formatted_answer |->
              Str("I'm not sure about that, but you might be interested in:") \o NL
              \o Join(NL, Bulleted(similar_questions))]
    ELSE IF _is_follow_up_question(context, q, classification)
            /\ Truthy(context.last_entities)
    THEN [type |-> Str("clarification"),
          formatted_answer |->
              Str("I'm not sure what you're asking about. Are you still asking about ")
              \o Join(Str(", "), context.last_entities.v) \o Str("?")]
    ELSE [type |-> Str("fallback"),
          formatted_answer |->
              Str("I apologize, but I couldn't find specific information about that. Could you please:") \o NL
              \o Str("1. Rephrase your question") \o NL
              \o Str("2. Be more specific") \o NL
              \o Str("3. Ask about a different topic like campus locations, programs, or facilities?")]

\* ORBAI._handle_fallback(query, classification)
_handle_fallback(context, q, classification) ==
    FallbackResponse(context, q, classification, find_similar_questions(q))

\* not response.get('information') and not response.get('formatted_answer')
IsEmptyResponse(response) ==
    /\ ("information" \notin DOMAIN response \/ response.information = <<>>)
    /\ ("formatted_answer" \notin DOMAIN response \/ response.formatted_answer = <<>>)

\* lines 47-53 of ORBAI.process_query: the query joins the history, and the
\* last question type and the last entities are set from the classification
Recorded(context, q, classification) ==
    [context EXCEPT
        !.conversation_history = Append(@, [query |-> q]),
        !.last_question_type = QT(classification.type),
        !.last_entities = LV(classification.entities)]

\* lines 56-58: the entities of a follow-up question are resolved
ResolvedEntities(context, q, classification, set_order) ==
    IF _is_follow_up_question(context, q, classification)
    THEN _resolve_references(context, classification.entities, q, set_order)
    ELSE classification.entities

\* line 67: the response joins the last entry of the history
Stored(context, q, response) ==
    [raised |-> "none",
     response |-> response,
     context |-> [context EXCEPT
         !.conversation_history[Len(context.conversation_history)] =
             [query |-> q, response |-> response]]]

\* lines 63-69: an empty response is replaced by the fallback; an exception
\* of the handler leaves process_query
Completed(handled, q, classification) ==
    IF handled.raised # "none"
    THEN [raised |-> handled.raised, context |-> handled.context]
    ELSE Stored(handled.context, q,
                IF IsEmptyResponse(handled.response)
                THEN _handle_fallback(handled.context, q, classification)
                ELSE handled.response)

\* the body of ORBAI.process_query(query) for a classification: the
\* response or the exception, and the context the call leaves
Answer(g, context, q, classification, set_order) ==
    Completed(_process_by_type(g, context, classification.type,
                               ResolvedEntities(context, q, classification, set_order),
                               classification.context),
              q, classification)

\* the queries put to ORBAI
ORBQueries ==
    {Str("Hello"),
     Str("Where is Tech Park?"),
     Str("Where is it"),
     Str("What is Tech Park?"),
     Str("Compare Kattankulathur and Sikkim"),
     Str("How do I apply for admission"),
     Str("How should we proceed"),
     Str("How can we use that library"),
     Str("Thanks"),
     Str("")}

\* the number of ORBAI turns explored
MaxOrbTurns == 2

ORBInit ==
    /\ orb_context = orb_initial_context
    /\ orb_last = [op |-> "init"]

\* the conversations whose queries reach the one ORBAI object
Conversations == {1, 2}

\* the context ORBAI keeps for a conversation: __init__ creates one
\* dictionary and process_query takes no conversation id, so it is
\* self.context for every conversation
ConversationContext(conversation, context) == context

\* ORBAI.process_query(query) under the answers of the spaCy pipeline, for
\* a query that belongs to the conversation
orb_process_query(q, classification, set_order, conversation) ==
    /\ Len(orb_context.conversation_history) < MaxOrbTurns
    /\ \E r \in {Answer(graph, Recorded(orb_context, q, classification),
                        q, classification, set_order)} :
          /\ orb_context' = r.context
          /\ orb_last' = [op |-> "process_query", query |-> q,
                          conversation |-> conversation,
                          classification |-> classification,
                          before |-> orb_context,
                          raised |-> r.raised,
                          returned |-> IF r.raised = "none" THEN r.response
                                       ELSE EmptyDict]

\* the answers the pipeline may give for a query text: the semantic type is
\* asked for when no pattern matches, the noun chunks when no entity
\* pattern matches
SemanticTypesFor(text, greeting, question_type) ==
    IF ~greeting /\ question_type = "unknown" /\ text # <<>>
    THEN SemanticTypes ELSE {"unknown"}

SemanticEntitiesFor(text, greeting, found) ==
    IF ~greeting /\ found = <<>> THEN NounChunks(text) ELSE {<<>>}

\* a query arrives at ORBAI; the pipeline answers the calls the query makes
ORBProcessQuery ==
    /\ Len(orb_context.conversation_history) < MaxOrbTurns
    /\ \E q \in ORBQueries, conversation \in Conversations :
       \E text \in {Strip(Lower(q))} :
       \E greeting \in {IsGreeting(text)}, found \in {RegexEntities(text)} :
       \E sem_type \in SemanticTypesFor(text, greeting, _match_question_type(text)) :
       \E sem_entities \in SemanticEntitiesFor(text, greeting, found) :
       \E ordered \in SetOrders(found) :
       \E query_context \in (IF greeting THEN {EmptyDict} ELSE Contexts(text)) :
       \E set_order \in (IF Len(found) > 1 THEN {"kept", "reversed"} ELSE {"kept"}) :
           /\ orb_process_query(
                  q,
                  classify_question(q, sem_type, sem_entities, ordered, query_context),
                  set_order, conversation)
           /\ UNCHANGED <<kgvars, ecvars, rank_last, simple_last, orb_calls>>

orbvars == <<orb_context, orb_last>>

-----------------------------------------------------------------------------
(* ORBAI.process_query called from several threads on the one ORBAI        *)
(* object.  The code takes no lock, so the statements of two calls          *)
(* interleave; a call is split where it reads or writes self.context.       *)
(* orb_calls  thread -> the position of its call and the call's locals      *)

\* the threads that call process_query
Threads == {1, 2}

\* the queries the threads put
ThreadQueries ==
    {Str("Hello"), Str("Where is Tech Park?"), Str("Where is it"), Str("Thanks")}

ThreadsInit == orb_calls = [t \in Threads |-> [pc |-> "idle"]]

\* lines 40-43: the query joins the history
CallAppend(t, q) ==
    /\ orb_calls[t].pc = "idle"
    /\ orb_context' = [orb_context EXCEPT
                          !.conversation_history = Append(@, [query |-> q])]
    /\ orb_calls' = [orb_calls EXCEPT ![t] = [pc |-> "appended", query |-> q]]

\* lines 46-53: the question is classified, and the last question type and
\* the last entities of the context are set
CallClassify(t, classification, set_order) ==
    /\ orb_calls[t].pc = "appended"
    /\ orb_context' = [orb_context EXCEPT
                          !.last_question_type = QT(classification.type),
                          !.last_entities = LV(classification.entities)]
    /\ orb_calls' = [orb_calls EXCEPT ![t] =
                        [pc |-> "classified", query |-> orb_calls[t].query,
                         classification |-> classification,
                         set_order |-> set_order]]

\* lines 56-63: the entities of a follow-up are resolved against the
\* context as it is now, the handler answers, and an empty answer is
\* replaced by the fallback; an exception of the handler ends the call
CallHandle(t) ==
    /\ orb_calls[t].pc = "classified"
    /\ \E call \in {orb_calls[t]} :
       \E handled \in {_process_by_type(graph, orb_context, call.classification.type,
                           ResolvedEntities(orb_context, call.query,
                                            call.classification, call.set_order),
                           call.classification.context)} :
          /\ orb_context' = handled.context
          /\ orb_calls' = [orb_calls EXCEPT ![t] =
                IF handled.raised # "none"
                THEN [pc |-> "done", query |-> call.query, raised |-> handled.raised]
                ELSE [pc |-> "handled", query |-> call.query, raised |-> "none",
                      response |->
                          IF IsEmptyResponse(handled.response)
                          THEN _handle_fallback(handled.context, call.query,
                                                call.classification)
                          ELSE handled.response,
                      classification |-> call.classification]]

\* line 66: the response is written into the last entry of the history,
\* whichever call appended it, and returned
CallStore(t) ==
    /\ orb_calls[t].pc = "handled"
    /\ orb_context' = [orb_context EXCEPT
          !.conversation_history[Len(orb_context.conversation_history)] =
              Merge(@, [response |-> orb_calls[t].response])]
    /\ orb_calls' = [orb_calls EXCEPT ![t].pc = "done"]

ThreadAppend ==
    \E t \in Threads, q \in ThreadQueries :
        /\ CallAppend(t, q)
        /\ UNCHANGED <<kgvars, ecvars, orb_last, rank_last, simple_last>>

\* the pipeline answers the calls the query makes, as in ORBProcessQuery
ThreadClassify ==
    \E t \in Threads :
        /\ orb_calls[t].pc = "appended"
        /\ \E q \in {orb_calls[t].query} :
           \E text \in {Strip(Lower(q))} :
           \E greeting \in {IsGreeting(text)}, found \in {RegexEntities(text)} :
           \E sem_type \in SemanticTypesFor(text, greeting, _match_question_type(text)) :
           \E sem_entities \in SemanticEntitiesFor(text, greeting, found) :
           \E ordered \in SetOrders(found) :
           \E query_context \in (IF greeting THEN {EmptyDict} ELSE Contexts(text)) :
           \E set_order \in (IF Len(found) > 1 THEN {"kept", "reversed"} ELSE {"kept"}) :
               CallClassify(t, classify_question(q, sem_type, sem_entities, ordered,
                                                 query_context),
                            set_order)
        /\ UNCHANGED <<kgvars, ecvars, orb_last, rank_last, simple_last>>

ThreadHandle ==
    \E t \in Threads :
        /\ CallHandle(t)
        /\ UNCHANGED <<kgvars, ecvars, orb_last, rank_last, simple_last>>

ThreadStore ==
    \E t \in Threads :
        /\ CallStore(t)
        /\ UNCHANGED <<kgvars, ecvars, orb_last, rank_last, simple_last>>

-----------------------------------------------------------------------------
(* SimpleChatbot and the /chat handler of simple_chatbot.py                *)
(* simple_last  the last message handled and what each step returned       *)

\* self.knowledge_base in iteration order
simple_knowledge_base ==
    << [name |-> Str("Tech Park"), data |->
          [id |-> SV(Str("Tech Park")),
           type |-> SV(Str("location")),
           description |-> SV(Str("A state-of-the-art facility housing research labs and industry collaboration centers")),
           location |-> SV(Str("Kattankulathur Campus")),
           address |-> SV(Str("SRM Nagar, Kattankulathur, Chengalpattu District, Tamil Nadu - 603203")),
           facilities |-> LV(<<Str("Research Labs"), Str("Innovation Center"),
                               Str("Industry Collaboration Space")>>),
           map_link |-> SV(Str("https://maps.app.goo.gl/HvLKqGK8TFE5QWLP6"))]],
       [name |-> Str("Central Library"), data |->
          [id |-> SV(Str("Central Library")),
           type |-> SV(Str("location")),
           description |-> SV(Str("Multi-story library with vast collection of books, journals, and digital resources")),
           location |-> SV(Str("Kattankulathur Campus")),
           facilities |-> LV(<<Str("Reading Halls"), Str("Digital Library"),
                               Str("Conference Rooms")>>),
           map_link |-> SV(Str("https://maps.app.goo.gl/HvLKqGK8TFE5QWLP6"))]],
       [name |-> Str("Kattankulathur Campus"), data |->
          [id |-> SV(Str("Kattankulathur")),
           type |-> SV(Str("campus")),
           location |-> SV(Str("Chennai")),
           established |-> SV(Str("1985")),
           address |-> SV(Str("SRM Nagar, Kattankulathur, Chengalpattu District, Tamil Nadu - 603203")),
           landmarks |-> LV(<<Str("Tech Park"), Str("University Building"),
                              Str("Central Library")>>),
           map_link |-> SV(Str("https://maps.app.goo.gl/HvLKqGK8TFE5QWLP6"))]] >>

\* self.patterns in iteration order.  The text searched has single spaces
\* (preprocess_query), so \s+ is one space and a pattern is the literal
\* prefixes its alternatives spell, the group (.*?), and what must follow the
\* group before \??$
patterns ==
    << [intent |-> Str("location"), tail |-> <<>>,
        prefixes |-> <<Str("where is ")>>],
       [intent |-> Str("location"), tail |-> <<>>,
        prefixes |-> <<Str("how do I get to "), Str("how do we get to "),
                       Str("how can I get to "), Str("how can we get to ")>>],
       [intent |-> Str("location"), tail |-> <<>>,
        prefixes |-> <<Str("give me direction to "), Str("give me directions to "),
                       Str("show me direction to "), Str("show me directions to ")>>],
       [intent |-> Str("location"), tail |-> <<>>,
        prefixes |-> <<Str("what is the location of ")>>],
       [intent |-> Str("description"), tail |-> <<>>,
        prefixes |-> <<Str("what is ")>>],
       [intent |-> Str("description"), tail |-> <<>>,
        prefixes |-> <<Str("tell me about ")>>],
       [intent |-> Str("description"), tail |-> <<>>,
        prefixes |-> <<Str("describe ")>>],
       [intent |-> Str("description"), tail |-> <<>>,
        prefixes |-> <<Str("give me information about ")>>],
       [intent |-> Str("facilities"), tail |-> <<>>,
        prefixes |-> <<Str("what facilities are there in "), Str("what facilities are in "),
                       Str("what facilities is there in "), Str("what facilities is in ")>>],
       [intent |-> Str("facilities"), tail |-> <<>>,
        prefixes |-> <<Str("what can I find in "), Str("what can we find in ")>>],
       [intent |-> Str("facilities"), tail |-> <<>>,
        prefixes |-> <<Str("what's available at "), Str("what available at ")>>],
       [intent |-> Str("facilities"), tail |-> Str(" have"),
        prefixes |-> <<Str("what does ")>>] >>

\* query.lower().strip() with the runs of whitespace made one space
preprocess_query(q) == Join(Str(" "), Split(Strip(Lower(q))))

\* text[i:] begins with prefix
PrefixAt(text, i, prefix) ==
    /\ i + Len(prefix) - 1 <= Len(text)
    /\ \A j \in 1..Len(prefix) : text[i + j - 1] = prefix[j]

\* text ends with suffix
EndsWith(text, suffix) ==
    /\ Len(suffix) <= Len(text)
    /\ \A j \in 1..Len(suffix) : text[Len(text) - Len(suffix) + j] = suffix[j]

\* whether (.*?) tail \??$ matches rest, and then the group
GroupOf(rest, tail) ==
    LET body == IF EndsWith(rest, Str("?")) THEN SubSeq(rest, 1, Len(rest) - 1) ELSE rest
    IN IF tail = <<>> THEN [matched |-> TRUE, group |-> body]
       ELSE IF EndsWith(body, tail) /\ Len(body) > Len(tail)
            THEN [matched |-> TRUE, group |-> SubSeq(body, 1, Len(body) - Len(tail))]
            ELSE [matched |-> FALSE, group |-> <<>>]

\* the match of one alternative at position i
MatchAt(text, i, prefix, tail) ==
    IF PrefixAt(text, i, prefix)
    THEN GroupOf(SubSeq(text, i + Len(prefix), Len(text)), tail)
    ELSE [matched |-> FALSE, group |-> <<>>]

\* re.search(pattern, text): the leftmost position where an alternative
\* matches, the alternatives tried in the order the pattern gives them
re_search(pattern, text) ==
    LET starts == {i \in 1..Len(text) :
                      \E a \in 1..Len(pattern.prefixes) :
                          MatchAt(text, i, pattern.prefixes[a], pattern.tail).matched}
    IN IF starts = {} THEN [matched |-> FALSE, group |-> <<>>]
       ELSE LET i == CHOOSE s \in starts : \A t \in starts : s <= t
                a == CHOOSE b \in 1..Len(pattern.prefixes) :
                        /\ MatchAt(text, i, pattern.prefixes[b], pattern.tail).matched
                        /\ \A c \in 1..(b - 1) :
                              ~MatchAt(text, i, pattern.prefixes[c], pattern.tail).matched
            IN MatchAt(text, i, pattern.prefixes[a], pattern.tail)

\* set(text.split())
WordSet(text) == {Split(text)[i] : i \in 1..Len(Split(text))}

\* the first entity of the knowledge base, in iteration order, that
\* satisfies the test; None when there is none
FirstEntity(kb, Test(_)) ==
    LET at == {i \in 1..Len(kb) : Test(kb[i].name)}
    IN IF at = {} THEN None
       ELSE SV(kb[CHOOSE i \in at : \A j \in at : i <= j].name)

\* SimpleChatbot.find_closest_entity
find_closest_entity(kb, q0) ==
    LET q == Strip(Lower(q0))
        Exact(entity) == q = Lower(entity)
        Containing_(entity) == Contains(Lower(entity), q) \/ Contains(q, Lower(entity))
        Words(entity) == \/ WordSet(Lower(entity)) \subseteq WordSet(q)
                         \/ WordSet(q) \subseteq WordSet(Lower(entity))
        exact == FirstEntity(kb, Exact)
        containing == FirstEntity(kb, Containing_)
    IN IF exact.k # "none" THEN exact
       ELSE IF containing.k # "none" THEN containing
       ELSE FirstEntity(kb, Words)

\* the pattern loop of find_best_match from pattern p on: the first pattern
\* that matches and whose group names an entity
RECURSIVE PatternMatch(_, _, _)
PatternMatch(kb, q, p) ==
    IF p > Len(patterns) THEN [entity |-> None, intent |-> None, confidence |-> 0]
    ELSE LET match == re_search(patterns[p], q)
             best_entity == IF match.matched
                            THEN find_closest_entity(kb, Strip(match.group))
                            ELSE None
         IN IF best_entity.k # "none"
            THEN [entity |-> best_entity, intent |-> SV(patterns[p].intent),
                  confidence |-> ExactConfidence]
            ELSE PatternMatch(kb, q, p + 1)

\* the confidences of a mentioned entity with and without an intent keyword,
\* and of a word overlap
KeywordConfidence == 90
MentionConfidence == 80
OverlapConfidence == 60

\* SimpleChatbot.find_best_match
find_best_match(kb, q0) ==
    LET q == preprocess_query(q0)
        by_pattern == PatternMatch(kb, q, 1)
        Mentioned(entity) == Contains(q, Lower(entity))
        mentioned == FirstEntity(kb, Mentioned)
        Overlapping(entity) == WordSet(Lower(entity)) \cap WordSet(Lower(q)) # {}
        overlapping == FirstEntity(kb, Overlapping)
    IN IF by_pattern.entity.k # "none" THEN by_pattern
       ELSE IF mentioned.k # "none"
       THEN IF AnyIn(<<Str("where"), Str("location"), Str("address"), Str("map")>>, Lower(q))
            THEN [entity |-> mentioned, intent |-> SV(Str("location")),
                  confidence |-> KeywordConfidence]
            ELSE IF AnyIn(<<Str("facilities"), Str("available"), Str("have"),
                            Str("contains")>>, Lower(q))
            THEN [entity |-> mentioned, intent |-> SV(Str("facilities")),
                  confidence |-> KeywordConfidence]
            ELSE [entity |-> mentioned, intent |-> SV(Str("description")),
                  confidence |-> MentionConfidence]
       ELSE IF overlapping.k # "none"
       THEN [entity |-> overlapping, intent |-> SV(Str("description")),
             confidence |-> OverlapConfidence]
       ELSE [entity |-> None, intent |-> None, confidence |-> 0]

\* self.knowledge_base.get(entity): the data of the entity, None without one
KBGet(kb, entity) ==
    LET at == {i \in 1..Len(kb) : kb[i].name = entity}
    IN IF at = {} THEN None ELSE DV(kb[CHOOSE i \in at : TRUE].data)

\* SimpleChatbot.get_response; in the dictionary of the 'description' branch
\* the key 'type' is written twice and the later value, data.get('type'),
\* is the one kept
get_response(kb, entity, intent) ==
    LET found == KBGet(kb, entity)
        data == found.v
    IN IF found.k = "none" \/ DOMAIN data = {}
       THEN [type |-> SV(Str("error")),
             message |-> SV(Str("I don't have information about ") \o entity \o Str("."))]
       ELSE IF intent = Str("location")
       THEN [type |-> SV(Str("location")), entity |-> SV(entity),
             address |-> Get(data, "address", None),
             map_link |-> Get(data, "map_link", None),
             location |-> Get(data, "location", None)]
       ELSE IF intent = Str("description")
       THEN [type |-> Get(data, "type", None), entity |-> SV(entity),
             description |-> Get(data, "description", None)]
       ELSE IF intent = Str("facilities")
       THEN [type |-> SV(Str("facilities")), entity |-> SV(entity),
             facilities |-> Get(data, "facilities", LV(<<>>)),
             description |-> Get(data, "description", None)]
       ELSE [type |-> SV(Str("full_info")), entity |-> SV(entity), info |-> found]

\* SimpleChatbot.get_similar_questions
get_similar_questions(kb, entity) ==
    IF KBGet(kb, entity).k = "none" THEN <<>>
    ELSE <<Str("Where is ") \o entity \o Str("?"),
           Str("What is ") \o entity \o Str("?"),
           Str("Tell me about ") \o entity,
           Str("What facilities are in ") \o entity \o Str("?")>>

\* the response of process_query when nothing was matched
SimpleFallback(kb, q) ==
    LET Mentioned(entity) == Contains(Lower(q), Lower(entity))
        known_entity == FirstEntity(kb, Mentioned)
    IN IF known_entity.k # "none"
       THEN [type |-> SV(Str("fallback")),
             message |-> SV(Str("I'm not quite sure what you're asking. Here are some questions you can try:")),
             suggestions |-> LV(get_similar_questions(kb, known_entity.v))]
       ELSE [type |-> SV(Str("fallback")),
             message |-> SV(Str("I'm not sure what you're asking about. Here are some locations I know about:")),
             suggestions |-> LV([i \in 1..Len(kb) |-> Str("Tell me about ") \o kb[i].name])]

\* SimpleChatbot.process_query, given what find_best_match returned
simple_process_query(kb, q, match) ==
    IF match.entity.k = "none" \/ match.confidence < AcceptThreshold
    THEN SimpleFallback(kb, q)
    ELSE Merge(get_response(kb, match.entity.v, match.intent.v),
               [confidence |-> match.confidence])

\* response_data.get(key, default); a key that is present with the value
\* None gives None
\* format_response of simple_chatbot.py
simple_format_response(response_data) ==
    LET response_type == Get(response_data, "type", SV(Str("unknown")))
        confidence == Get(response_data, "confidence", ExactConfidence)
    IN IF ValEq(response_type, SV(Str("location")))
       THEN LET address == Get(response_data, "address", SV(Str("No address available")))
                location == Get(response_data, "location", SV(Str("")))
                map_link == Get(response_data, "map_link", SV(Str("")))
            IN IF "entity" \notin DOMAIN response_data
               THEN [response |-> Str("Sorry, there was an error formatting the response."),
                     confidence |-> 0]
               ELSE [response |->
                        PyStr(response_data.entity) \o Str(" is located at ")
                        \o PyStr(address) \o Str(".")
                        \o (IF Truthy(location)
                            THEN Str(" You can find it in ") \o PyStr(location) \o Str(".")
                            ELSE <<>>)
                        \o (IF Truthy(map_link)
                            THEN NL \o Str("Here's a map link: ") \o PyStr(map_link)
                            ELSE <<>>),
                     confidence |-> confidence]
       ELSE IF ValEq(response_type, SV(Str("description")))
       THEN [response |->
                PyStr(Get(response_data, "entity", SV(Str("Unknown")))) \o Str(": ")
                \o PyStr(Get(response_data, "description",
                             SV(Str("No description available.")))),
             confidence |-> confidence]
       ELSE IF ValEq(response_type, SV(Str("facilities")))
       THEN LET entity == PyStr(Get(response_data, "entity", SV(Str("Unknown"))))
                facilities == Get(response_data, "facilities", LV(<<>>))
                description == Get(response_data, "description", SV(Str("")))
            IN [response |->
                   (IF ~Truthy(facilities)
                    THEN Str("No facilities information available for ") \o entity \o Str(".")
                    ELSE entity \o Str(" has the following facilities: ")
                         \o Join(Str(", "), facilities.v) \o Str("."))
                   \o (IF Truthy(description) THEN NL \o PyStr(description) ELSE <<>>),
                confidence |-> confidence]
       ELSE IF ValEq(response_type, SV(Str("fallback")))
       THEN LET message == Get(response_data, "message",
                               SV(Str("I'm not sure how to help with that.")))
                suggestions == Get(response_data, "suggestions", LV(<<>>))
            IN [response |->
                   PyStr(message)
                   \o (IF Truthy(suggestions)
                       THEN NL \o NL \o Str("You might want to try:") \o NL
                            \o Join(NL, [i \in 1..Len(suggestions.v) |->
                                            Str("- ") \o suggestions.v[i]])
                       ELSE <<>>),
                confidence |-> 0]
       ELSE IF ValEq(response_type, SV(Str("error")))
       THEN [response |-> PyStr(Get(response_data, "message",
                                    SV(Str("Sorry, I couldn't process your request.")))),
             confidence |-> 0]
       ELSE IF ~Truthy(Get(response_data, "info", DV(EmptyDict)))
       THEN [response |-> Str("Sorry, I don't have any information about that."),
             confidence |-> 0]
       ELSE [response |-> Str("Here's what I know about ")
                          \o PyStr(Get(response_data.info.v, "id", SV(Str("this"))))
                          \o Str(":"),
             confidence |-> confidence]

\* the messages posted to /chat: a way of asking with a name in it
SimpleTemplates ==
    { [pre |-> Str("Where is "), post |-> Str("?")],
      [pre |-> Str("What is "), post |-> Str("?")],
      [pre |-> Str("Tell me  about "), post |-> Str("")],
      [pre |-> Str("describe "), post |-> Str("")],
      [pre |-> Str("What is the location of "), post |-> Str("?")],
      [pre |-> Str("How do I get to "), post |-> Str("?")],
      [pre |-> Str("how can we get to "), post |-> Str("")],
      [pre |-> Str("What facilities are in "), post |-> Str("?")],
      [pre |-> Str("What does "), post |-> Str(" have?")],
      [pre |-> Str(""), post |-> Str(" hours")],
      [pre |-> Str("map of "), post |-> Str("")],
      [pre |-> Str(""), post |-> Str("")] }

SimpleNames ==
    { Str("Tech Park"), Str("tech park"), Str("tech"), Str("Central Library"),
      Str("library"), Str("Kattankulathur Campus"), Str("Kattankulathur"),
      Str("the hostel"), Str("park library"), Str("") }

SimpleInit == simple_last = [op |-> "init"]

\* one POST to /chat: process_query, then format_response
Chat ==
    /\ simple_last.op = "init"
    /\ \E template \in SimpleTemplates, named \in SimpleNames :
       \E q \in {template.pre \o named \o template.post} :
       \E match \in {find_best_match(simple_knowledge_base, q)} :
       \E response_data \in {simple_process_query(simple_knowledge_base, q, match)} :
          /\ simple_last' = [op |-> "chat", message |-> q, named |-> named,
                             match |-> match, response_data |-> response_data,
                             formatted |-> simple_format_response(response_data)]
          /\ UNCHANGED <<kgvars, ecvars, orbvars, rank_last, orb_calls>>

simplevars == <<simple_last>>

-----------------------------------------------------------------------------
(* The specifications                                                      *)

vars ==
    <<graph, kg_result, kg_ops, sessions, contexts, ec_last, orb_context, orb_last,
      rank_last, simple_last, orb_calls>>

Init == KGInit /\ ECInit /\ ORBInit /\ RankInit /\ SimpleInit /\ ThreadsInit

\* the knowledge graph under its mutators
KGNext ==
    \/ AddEntity /\ UNCHANGED <<ecvars, orbvars, rank_last, simple_last, orb_calls>>
    \/ AddRelationship /\ UNCHANGED <<ecvars, orbvars, rank_last, simple_last, orb_calls>>

SpecKG == Init /\ [][KGNext]_vars

\* the EnhancedChatbot under conversations
Next == StartConversation \/ ProcessQuery \/ GetConversationSummary

Spec == Init /\ [][Next]_vars

\* ORBAI under queries
ORBNext == ORBProcessQuery

\* the ranker under calls
RankNext == FindBestMatches

SpecRank == Init /\ [][RankNext]_vars

SpecORB == Init /\ [][ORBNext]_vars

\* the SimpleChatbot service under messages
SimpleNext == Chat

SpecSimple == Init /\ [][SimpleNext]_vars

\* ORBAI under calls from several threads
ThreadsNext == ThreadAppend \/ ThreadClassify \/ ThreadHandle \/ ThreadStore

SpecThreads == Init /\ [][ThreadsNext]_vars

-----------------------------------------------------------------------------
(* The claims                                                              *)

\* the dictionary holds the string s under key
HasStr(d, key, s) == key \in DOMAIN d /\ ValEq(d[key], SV(s))

\* the dictionary carries a non-empty list of suggestions
HasSuggestions(d) ==
    /\ "suggestions" \in DOMAIN d
    /\ d.suggestions.k = "list"
    /\ d.suggestions.v # <<>>

\* the last step was EnhancedChatbot.process_query of the query text
Asked(text) ==
    /\ ec_last.op = "process_query"
    /\ ValEq(ec_last.query, SV(text))

\* the conversation had a current entity before the last step
HadEntity ==
    /\ ec_last.before.current_entity.k = "str"
    /\ ec_last.before.current_entity.v # <<>>

\* C1: for every entity the graph holds with id i and type t,
\* query(t, {'id': i}) returns exactly one result, equal to the entity with
\* its id, type and attributes.
C1_QueryByIdReturnsEntity ==
    \A i \in 1..Len(graph.nodes) :
        LET n == graph.nodes[i]
            attrs == graph.attrs[n]
        IN ("type" \in DOMAIN attrs /\ attrs.type.k = "str")
           => query(graph, attrs.type.v, [id |-> SV(n)]) = <<NodeDict(graph, n)>>

\* C2: in a fresh session "Where is Tech Park?" is resolved by direct match:
\* the result has type 'location', entity "Tech Park" in its stored casing,
\* confidence 1.0 and the entity's address.
C2_DirectMatchOfTechPark ==
    (Asked(Str("Where is Tech Park?")) /\ ec_last.before = default_context)
    => /\ ~ec_last.raised
       /\ HasStr(ec_last.returned, "type", Str("location"))
       /\ HasStr(ec_last.returned, "entity", Str("Tech Park"))
       /\ ec_last.returned.confidence = 100
       /\ HasStr(ec_last.returned, "address", Str("SRM Nagar, Kattankulathur"))

\* C3: where an earlier turn resolved current_entity = E, a query that
\* refers to E only through a pronoun is resolved against E with a
\* confidence above 0.6.
C3_PronounResolvesAgainstEntity ==
    (/\ \/ Asked(Str("where is it?"))
        \/ Asked(Str("What are its timings?"))
        \/ Asked(Str("Where is it located?"))
     /\ HadEntity)
    => /\ ~ec_last.raised
       /\ HasStr(ec_last.returned, "entity", ec_last.before.current_entity.v)
       /\ ec_last.returned.confidence > 60

\* C4: where the previous turn resolved entity E, "What facilities does it
\* have?" yields type 'facilities', entity E, a confidence above 0.6 and a
\* facilities list.
C4_FacilitiesFollowUp ==
    (Asked(Str("What facilities does it have?")) /\ HadEntity)
    => /\ ~ec_last.raised
       /\ HasStr(ec_last.returned, "type", Str("facilities"))
       /\ HasStr(ec_last.returned, "entity", ec_last.before.current_entity.v)
       /\ ec_last.returned.confidence > 60
       /\ "facilities" \in DOMAIN ec_last.returned

\* C5: every result of type 'fallback' that EnhancedChatbot.process_query
\* returns has confidence 0.0 and between one and five suggestions.
C5_FallbackCarriesSuggestions ==
    (/\ ec_last.op = "process_query"
     /\ HasStr(ec_last.returned, "type", Str("fallback")))
    => /\ ec_last.returned.confidence = 0
       /\ HasSuggestions(ec_last.returned)
       /\ Len(ec_last.returned.suggestions.v) <= 5

\* a fallback whose suggestions come from similar entities and fill the
\* limit of five, and one that carries the generic questions
C5_Witness ==
    /\ ec_last.op = "process_query"
    /\ HasStr(ec_last.returned, "type", Str("fallback"))
    /\ Len(ec_last.returned.suggestions.v) = 5
    /\ ec_last.returned.suggestions.v # popular_topics

\* C6: a query that names no knowledge-base entity gets, in any state of
\* the session, a response with a non-empty list of suggestions.
C6_UnclearQueryGetsSuggestions ==
    Asked(Str("What about that thing?")) => HasSuggestions(ec_last.returned)

\* C7: process_query of an empty string or of None returns a response
\* with an 'error' entry.
C7_EmptyOrNoneQueryIsAnError ==
    (/\ ec_last.op = "process_query"
     /\ (ValEq(ec_last.query, SV(Str(""))) \/ ec_last.query.k = "none"))
    => "error" \in DOMAIN ec_last.returned

\* C8: every failure inside process_query (an analyzer fault, an embedding
\* fault, an internal exception) reaches the caller as a response with a
\* non-empty list of suggestions.
C8_FailureCarriesSuggestions ==
    (/\ ec_last.op = "process_query"
     /\ (ec_last.raised \/ ec_last.encode_fault))
    => HasSuggestions(ec_last.returned)

\* C9: process_query returns a result with a 'type' and a 'confidence'
\* between 0.0 and 1.0 (here for ORBAI).
C9_ResultHasTypeAndConfidence ==
    orb_last.op = "process_query"
    => /\ orb_last.raised = "none"
       /\ "type" \in DOMAIN orb_last.returned
       /\ "confidence" \in DOMAIN orb_last.returned
       /\ orb_last.returned.confidence \in 0..100

\* C10: a turn that ends in a fallback, after a turn that was answered,
\* leaves the last entities and the last question type as they were before
\* it (here for ORBAI).
C10_FallbackKeepsAnchor ==
    (/\ orb_last.op = "process_query"
     /\ orb_last.raised = "none"
     /\ orb_last.returned.type = Str("fallback")
     /\ Truthy(orb_last.before.last_entities)
     /\ LET history == orb_last.before.conversation_history
        IN /\ history # <<>>
           /\ "response" \in DOMAIN history[Len(history)]
           /\ history[Len(history)].response.type = Str("location"))
    => /\ ValEq(orb_context.last_entities, orb_last.before.last_entities)
       /\ ValEq(orb_context.last_question_type, orb_last.before.last_question_type)

\* the session the last call of EnhancedChatbot.process_query worked on
LastContext == contexts[ec_last.session_id]

\* C11: every call of process_query on a session appends exactly one turn
\* to the session's history and leaves the earlier turns as they were, so
\* that the summary's num_interactions counts the calls made on the session.
C11_EveryCallAppendsOneTurn ==
    ec_last.op = "process_query"
    => /\ get_conversation_summary(LastContext).num_interactions
              = Len(ec_last.before.history) + 1
       /\ SubSeq(LastContext.history, 1, Len(ec_last.before.history))
              = ec_last.before.history

ReAdded ==
    /\ kg_result.op = "add_entity"
    /\ InList(kg_result.entity_id, kg_result.before.nodes)

\* the attribute dictionary add_entity was asked to store
Asserted == Merge([type |-> SV(kg_result.entity_type)], kg_result.attributes)

\* C13: add_entity on an id already present with another type fails with
\* DuplicateEntityError and leaves the graph as it was; add_entity with the
\* type and attributes the entity already has leaves the graph as it was
\* and does not fail.
C13_AddEntityRejectsConflictingType ==
    /\ (/\ ReAdded
        /\ "type" \in DOMAIN kg_result.before.attrs[kg_result.entity_id]
        /\ ~ValEq(kg_result.before.attrs[kg_result.entity_id].type,
                  SV(kg_result.entity_type)))
       => /\ kg_result.raised = "DuplicateEntityError"
          /\ graph = kg_result.before
    /\ (/\ ReAdded
        /\ "type" \notin DOMAIN kg_result.attributes
        /\ kg_result.before.attrs[kg_result.entity_id] = Asserted)
       => /\ kg_result.raised = "none"
          /\ graph = kg_result.before

\* the last step was add_relationship with an endpoint the graph did not hold
UnknownEndpoint ==
    /\ kg_result.op = "add_relationship"
    /\ \/ ~InList(kg_result.from_entity, kg_result.before.nodes)
       \/ ~InList(kg_result.to_entity, kg_result.before.nodes)

\* C14: add_relationship with an endpoint that is no entity of the graph
\* fails with UnknownEntityError and adds neither an edge nor a node.
C14_AddRelationshipRejectsUnknownEndpoint ==
    UnknownEndpoint
    => /\ kg_result.raised = "UnknownEntityError"
       /\ graph.edges = kg_result.before.edges
       /\ graph.nodes = kg_result.before.nodes

\* the types and filters query is called with
QueryTypes ==
    {Str("campus"), Str("location"), Str("facility"), Str("building")}
QueryFilters ==
    {EmptyDict,
     [location |-> SV(Str("Kattankulathur Campus"))],
     [description |-> SV(Str("Annex of the library"))],
     [location |-> SV(Str("Kattankulathur Campus")),
      description |-> SV(Str("A facility housing research labs"))],
     [location |-> SV(Str("Chennai")), established |-> SV(Str("2019"))],
     [id |-> SV(Str("Library Annex"))],
     [type |-> SV(Str("campus"))],
     [landmarks |-> LV(<<Str("Tech Park"), Str("Central Library")>>)]}

\* the positions of the nodes of type t whose attribute dictionary has
\* every pair of the filters f
Matching(g, t, f) ==
    {i \in 1..Len(g.nodes) :
        /\ "type" \in DOMAIN g.attrs[g.nodes[i]]
        /\ g.attrs[g.nodes[i]].type = SV(t)
        /\ \A key \in DOMAIN f :
              /\ key \in DOMAIN g.attrs[g.nodes[i]]
              /\ g.attrs[g.nodes[i]][key] = f[key]}

\* the list r holds the nodes at the positions M, each once, in the order
\* of insertion
ListsInOrder(g, r, M) ==
    /\ Len(r) = Cardinality(M)
    /\ \A i \in M :
          r[Cardinality({j \in M : j <= i})] = NodeDict(g, g.nodes[i])

\* C15: query(type, filters) returns exactly the entities of the type whose
\* attributes have every (key, value) pair of the filters, in insertion
\* order; without filters it returns every entity of the type; when nothing
\* matches it returns the empty list.
C15_QueryReturnsTheMatchingEntities ==
    \A t \in QueryTypes, f \in QueryFilters :
        /\ ListsInOrder(graph, query(graph, t, f), Matching(graph, t, f))
        /\ f = EmptyDict =>
              Len(query(graph, t, f))
                  = Cardinality({i \in 1..Len(graph.nodes) :
                        /\ "type" \in DOMAIN graph.attrs[graph.nodes[i]]
                        /\ graph.attrs[graph.nodes[i]].type = SV(t)})
        /\ Matching(graph, t, f) = {} => query(graph, t, f) = <<>>

\* after an entity was added, a query with filters selects some of the
\* entities of a type, one with two filters exactly one of them, and
\* another query matches nothing
C15_Witness ==
    /\ kg_result.op = "add_entity"
    /\ kg_result.raised = "none"
    /\ Len(query(graph, Str("location"), EmptyDict)) = 3
    /\ Len(query(graph, Str("location"),
                 [location |-> SV(Str("Kattankulathur Campus"))])) = 2
    /\ Len(query(graph, Str("location"),
                 [description |-> SV(Str("Annex of the library"))])) = 1
    /\ Len(query(graph, Str("location"),
                 [location |-> SV(Str("Kattankulathur Campus")),
                  description |-> SV(Str("A facility housing research labs"))])) = 1
    /\ query(graph, Str("building"), EmptyDict) = <<>>

\* the texts search_by_text is called with
SearchTexts ==
    {Str("LIBRARY"), Str("Kattankulathur"), Str("Annex Desk"), Str("phone"),
     Str("location"), Str("wi-fi"), Str("zzz"), Str("")}

\* q occurs in s when letter case is ignored
Occurs(q, s) == Contains(Lower(s), Lower(q))

\* q occurs in the string value, in an element of the list value or in a
\* value of the mapping value
OccursInValue(q, value) ==
    CASE value.k = "str" -> Occurs(q, value.v)
      [] value.k = "list" -> \E i \in 1..Len(value.v) : Occurs(q, value.v[i])
      [] value.k = "dict" -> \E key \in DOMAIN value.v : Occurs(q, value.v[key])
      [] OTHER -> FALSE

\* the positions of the nodes in whose id or attribute values q occurs
Hits(g, q) ==
    {i \in 1..Len(g.nodes) :
        \/ Occurs(q, g.nodes[i])
        \/ \E key \in DOMAIN g.attrs[g.nodes[i]] :
              OccursInValue(q, g.attrs[g.nodes[i]][key])}

\* C16: search_by_text(q) returns no entity unless q occurs, letter case
\* ignored, in the entity's id or in a string attribute, an element of a
\* list attribute or a value of a mapping attribute, and it returns each
\* such entity once, also when several of its attributes match.
C16_SearchReturnsOnlyMatchesOnce ==
    \A q \in SearchTexts :
        ListsInOrder(graph, search_by_text(graph, q), Hits(graph, q))

\* after a call of add_entity a text is found in one entity through its
\* mapping attribute alone, another in an entity whose id and whose
\* address both hold it, and a third in none
C16_Witness ==
    /\ kg_result.op = "add_entity"
    /\ Len(search_by_text(graph, Str("Annex Desk"))) = 1
    /\ Len(search_by_text(graph, Str("LIBRARY"))) >= 2
    /\ \E i \in Hits(graph, Str("Kattankulathur")) :
          /\ "address" \in DOMAIN graph.attrs[graph.nodes[i]]
          /\ Occurs(Str("Kattankulathur"), graph.attrs[graph.nodes[i]].address.v)
    /\ search_by_text(graph, Str("zzz")) = <<>>

\* the position of the candidate text in the list ranked
PosIn(list, x) == CHOOSE i \in 1..Len(list) : list[i] = x

\* the last step was a ranking of candidates that the model embedded
Ranked ==
    /\ rank_last.op = "find_best_matches"
    /\ ~rank_last.encode_fault
    /\ rank_last.candidates # <<>>

\* C17: find_best_matches(query, candidates, top_k) returns
\* min(top_k, number of candidates) pairs in descending order of similarity,
\* candidates of equal similarity in the order they have in the candidate
\* list.
C17_RankingIsDescendingAndStable ==
    Ranked
    => LET r == rank_last.returned
           n == Len(rank_last.candidates)
       IN /\ Len(r) = (IF rank_last.top_k < n THEN rank_last.top_k ELSE n)
          /\ \A i, j \in 1..Len(r) :
                i < j =>
                   /\ r[i].similarity >= r[j].similarity
                   /\ r[i].similarity = r[j].similarity
                      => PosIn(rank_last.candidates, r[i].candidate)
                             < PosIn(rank_last.candidates, r[j].candidate)

FollowUpAsStated(q, ents, prior) ==
    \/ \E i \in 1..Len(pronouns) : InList(pronouns[i], word_tokenize(Lower(q)))
    \/ AnyIn(followup_phrases, Lower(q))
    \/ \E i \in 1..Len(conjunctions) : StartsWith(Lower(q), conjunctions[i])
    \/ ents = <<>> /\ Truthy(prior.last_entities)

\* the follow-up flag ORBAI.process_query computed in its last call
OrbFollowUp ==
    _is_follow_up_question(
        Recorded(orb_last.before, orb_last.query, orb_last.classification),
        orb_last.query, orb_last.classification)

\* C19: a query is taken as a follow-up exactly when it has a standalone
\* pronoun, or a follow-up cue, or a leading conjunction, or when no entity
\* was extracted from it and the context the previous turn left has a
\* non-empty last entity (here for ORBAI).
C19_FollowUpIsTheDisjunction ==
    orb_last.op = "process_query"
    => (OrbFollowUp <=> FollowUpAsStated(orb_last.query,
                                         orb_last.classification.entities,
                                         orb_last.before))

\* the items of a list, as a set
ItemsOf(list) == {list[i] : i \in 1..Len(list)}

\* the entities the follow-up context holds under its roles
FollowUpEntries(follow_up_context) ==
    UNION {IF follow_up_context[key].k = "list"
           THEN ItemsOf(follow_up_context[key].v)
           ELSE {follow_up_context[key].v} : key \in DOMAIN follow_up_context}

\* the entities ORBAI.process_query handed to the handler in its last call
OrbLookupEntities ==
    ItemsOf(ResolvedEntities(
                Recorded(orb_last.before, orb_last.query, orb_last.classification),
                orb_last.query, orb_last.classification, "kept"))

\* C20: when a query is a follow-up and an earlier turn left entities in
\* the context, the entities used for the lookup are the query's own
\* entities together with the entities of the earlier turn and the entries
\* of the follow-up context, each once (here for ORBAI).
C20_FollowUpLookupUsesEarlierEntities ==
    (/\ orb_last.op = "process_query"
     /\ OrbFollowUp
     /\ Truthy(orb_last.before.last_entities))
    => OrbLookupEntities
           = ItemsOf(orb_last.classification.entities)
             \cup ItemsOf(orb_last.before.last_entities.v)
             \cup FollowUpEntries(orb_last.before.follow_up_context)

\* the response of the last /chat message is an answer, neither the
\* fallback nor an error
SimpleResolved ==
    /\ ~ValEq(simple_last.response_data.type, SV(Str("fallback")))
    /\ ~ValEq(simple_last.response_data.type, SV(Str("error")))

\* C21: a resolution is accepted only above the threshold 0.6 (here for
\* SimpleChatbot): an answer that is neither the fallback nor an error has a
\* confidence greater than 0.6, and a match of confidence 0.6 or less, or no
\* match at all, gives the fallback.
C21_AcceptedOnlyAboveThreshold ==
    simple_last.op = "chat"
    => /\ SimpleResolved => simple_last.response_data.confidence > AcceptThreshold
       /\ (simple_last.match.entity.k = "none"
           \/ simple_last.match.confidence <= AcceptThreshold)
          => ValEq(simple_last.response_data.type, SV(Str("fallback")))

\* every thread has made its call and the call returned a response
AllCallsReturned ==
    \A t \in Threads : orb_calls[t].pc = "done" /\ orb_calls[t].raised = "none"

\* C22: concurrent process_query calls on one conversation lose no update
\* (here for ORBAI): when two calls have returned, under every
\* interleaving, the history has one entry per call, the entries are the
\* queries of the calls each with the response its own call returned, and
\* the last question type and last entities are those written by one call.
C22_ConcurrentCallsLoseNoUpdate ==
    AllCallsReturned
    => LET history == orb_context.conversation_history
       IN /\ Len(history) = Cardinality(Threads)
          /\ \E order \in [1..Len(history) -> Threads] :
                /\ \A t \in Threads : \E i \in 1..Len(history) : order[i] = t
                /\ \A i \in 1..Len(history) :
                      history[i] = [query |-> orb_calls[order[i]].query,
                                    response |-> orb_calls[order[i]].response]
          /\ \E t \in Threads :
                /\ orb_context.last_question_type
                       = QT(orb_calls[t].classification.type)
                /\ orb_context.last_entities
                       = LV(orb_calls[t].classification.entities)

\* C23: conversational state is per conversation (here for ORBAI): a query
\* processed for one conversation leaves the history, the last entities
\* and the follow-up context of every other conversation served by the
\* same ORBAI object as they were.
C23_QueryLeavesOtherConversationsAlone ==
    orb_last.op = "process_query"
    => \A other \in Conversations \ {orb_last.conversation} :
          LET now == ConversationContext(other, orb_context)
              before == ConversationContext(other, orb_last.before)
          IN /\ now.conversation_history = before.conversation_history
             /\ now.last_entities = before.last_entities
             /\ now.follow_up_context = before.follow_up_context

\* the ids of the entities a location response carries
SurfacedEntities(response) ==
    IF "information" \in DOMAIN response /\ response.type = Str("location")
    THEN {response.information[i].id.v : i \in 1..Len(response.information)}
    ELSE {}

\* C24: referenced_entities accumulates every entity id surfaced in the
\* conversation (ORBAI): after a turn whose response surfaces an entity,
\* the entity is a member of referenced_entities, and no turn removes a
\* member.
C24_ReferencedEntitiesAccumulate ==
    (orb_last.op = "process_query" /\ orb_last.raised = "none")
    => /\ SurfacedEntities(orb_last.returned) \subseteq orb_context.referenced_entities
       /\ orb_last.before.referenced_entities \subseteq orb_context.referenced_entities

\* the names a message can use for the knowledge-base entity exactly: the
\* key it is stored under and its 'id' field, in any case
SimpleEntityIds(entity) ==
    {Lower(entity), Lower(KBGet(simple_knowledge_base, entity).v.id.v)}

\* C25: confidence 1.0 is reported only for an exact id hit (here for
\* SimpleChatbot): when a result has confidence 1.0, the entity named in
\* the message equals the id of the knowledge-base entity the result is
\* about; an empty string, a fragment or a name that is no entity never
\* gets confidence 1.0.
C25_FullConfidenceOnlyForExactId ==
    (/\ simple_last.op = "chat"
     /\ SimpleResolved
     /\ simple_last.response_data.confidence = ExactConfidence)
    => Lower(simple_last.named) \in SimpleEntityIds(simple_last.response_data.entity.v)

\* C26: a query that fails before it produces a response leaves the
\* conversation context unchanged (ORBAI): a call of process_query that
\* ends in an exception adds no history entry and changes neither the last
\* question type, the last entities nor the follow-up context.
C26_FailedQueryLeavesContextUnchanged ==
    (orb_last.op = "process_query" /\ orb_last.raised # "none")
    => /\ orb_context.conversation_history = orb_last.before.conversation_history
       /\ orb_context.last_question_type = orb_last.before.last_question_type
       /\ orb_context.last_entities = orb_last.before.last_entities
       /\ orb_context.follow_up_context = orb_last.before.follow_up_context

\* the question types the classifier gives
QuestionTypes ==
    {"greeting", "location", "factual", "procedural", "comparative", "unknown"}

\* C27: ORBAI.process_query returns a response for every classified
\* question type without raising: whatever the query and the context, the
\* handler _process_by_type dispatches to accepts its arguments and the
\* call ends with a response.
C27_EveryQuestionTypeIsAnswered ==
    \A type \in QuestionTypes :
        (orb_last.op = "process_query" /\ orb_last.classification.type = type)
        => /\ orb_last.raised = "none"
           /\ DOMAIN orb_last.returned # {}

\* the last /chat message was matched with intent 'description'
MatchedDescription ==
    /\ simple_last.op = "chat"
    /\ simple_last.match.entity.k = "str"
    /\ ValEq(simple_last.match.intent, SV(Str("description")))
    /\ simple_last.match.confidence >= AcceptThreshold

\* C28: in SimpleChatbot a query matched with intent 'description' for a
\* known entity yields a response of type 'description' that carries the
\* entity's description, and format_response renders it through its
\* description branch, as "<entity>: <description>".
C28_DescriptionIntentGivesDescription ==
    MatchedDescription
    => LET entity == simple_last.match.entity.v
           data == KBGet(simple_knowledge_base, entity).v
       IN /\ ValEq(simple_last.response_data.type, SV(Str("description")))
          /\ simple_last.response_data.description = Get(data, "description", None)
          /\ simple_last.formatted.response
                 = entity \o Str(": ") \o PyStr(Get(data, "description", None))

\* a node of the graph that is a typed entity
TypedEntity(g, n) == InList(n, g.nodes) /\ "type" \in DOMAIN g.attrs[n]

\* the ids get_related_entities lists
RelatedIds(g, entity_id, relationship_type) ==
    LET related == get_related_entities(g, entity_id, relationship_type)
    IN {related[i].id.v : i \in 1..Len(related)}

\* C29: after construction and after any add_entity / add_relationship
\* calls, every node of the knowledge graph has a 'type' attribute, both
\* endpoints of every relationship are such nodes, and every location is
\* reached from an existing campus entity by
\* get_related_entities(campus, 'has_location').
C29_EveryNodeIsATypedEntity ==
    /\ \A i \in 1..Len(graph.nodes) : TypedEntity(graph, graph.nodes[i])
    /\ \A i \in 1..Len(graph.edges) :
          TypedEntity(graph, graph.edges[i].u) /\ TypedEntity(graph, graph.edges[i].v)
    /\ \A i \in 1..Len(graph.nodes) :
          HasStr(graph.attrs[graph.nodes[i]], "type", Str("location"))
          => \E j \in 1..Len(graph.nodes) :
                /\ HasStr(graph.attrs[graph.nodes[j]], "type", Str("campus"))
                /\ graph.nodes[i] \in RelatedIds(graph, graph.nodes[j], Str("has_location"))

\* C30: the knowledge graph holds at most one relationship per (from, to,
\* relationship type), so get_related_entities(entity_id, relationship_type)
\* lists each related entity at most once per relationship type; each
\* degree of a program is listed exactly once under 'has_degree'.
C30_OneRelationshipPerTriple ==
    /\ \A i, j \in 1..Len(graph.edges) : graph.edges[i] = graph.edges[j] => i = j
    /\ \A n \in 1..Len(graph.nodes) :
          \A relationship_type \in {graph.edges[e].relationship : e \in 1..Len(graph.edges)} :
             LET related == get_related_entities(graph, graph.nodes[n], relationship_type)
             IN \A i, j \in 1..Len(related) : related[i].id = related[j].id => i = j

=============================================================================
